---- MODULE Spec2Model ----
(***************************************************************************)
(* FacePic: resumable batch ingestion (backend/app/services/               *)
(* batch_processor.py), online clustering (processor/app/services/         *)
(* clustering_service.py) and maintenance (processor/fixup.py,             *)
(* backend/app/routers/images.py) over the images / faces / persons /      *)
(* folders collections and the append-only progress log.                   *)
(*                                                                         *)
(* Conventions.  Scores and similarities are hundredths (0.45 is 45).      *)
(* Python None is Null in number-valued fields and "" in string-valued     *)
(* ones.  A collection is the sequence of its documents in natural         *)
(* (insertion) order.  An ObjectId is a positive number; a reference to a  *)
(* document is either the ObjectId itself or its str() form, and MongoDB   *)
(* equality never matches one against the other.                           *)
(***************************************************************************)
EXTENDS Integers, Sequences, FiniteSets, TLC

VARIABLES
    tree,           \* the files under import_dir, in os.walk order
    host,           \* the host and the command line of the runs
    log,            \* lines of processed_log.jsonl
    images,         \* db.images
    faces,          \* db.faces
    persons,        \* db.persons
    folders,        \* db.folders
    thumbs,         \* person ids p whose thumbnails/faces/person_<p>.jpg exists
    ctr,            \* ObjectIds handed out so far, per collection
    sched,          \* BatchProcessor.run: locals of the scheduler process
    task_queue,     \* ctx.Queue() of tasks
    result_queue,   \* ctx.Queue() of (log_key, result)
    workers,        \* the scheduler's list of worker processes
    new_faces_list, \* manager.list() shared by the workers
    initial_faces,  \* get_all_known_faces() snapshot handed to the workers
    callers,        \* get_or_create_folder calls under way, one per process
    bucket,         \* names of the objects held by the R2 bucket
    codec,          \* encoding_utils: the last vector encoded and its decoding
    matcher,        \* _find_matching_person: its last call and what came of it
    hist            \* observations of the run, read by the properties only

vars == << tree, host, log, images, faces, persons, folders, thumbs, ctr, sched,
           task_queue, result_queue, workers, new_faces_list, initial_faces,
           callers, bucket, codec, matcher, hist >>

----------------------------------------------------------------------------
(* Bounds *)

MaxRuns == 2        \* ingestion runs started, the first included
MaxFaults == 1      \* worker deaths and task exceptions injected per behaviour
MaxUploads == 1     \* upload requests served per behaviour

----------------------------------------------------------------------------
(* Values *)

Null == -1

Str(n) == [t |-> "str", n |-> n]
Oid(n) == [t |-> "oid", n |-> n]
NoRef == [t |-> "none", n |-> Null]

\* bson.ObjectId(x): accepts an ObjectId or its 24-hex string
ObjectId(ref) == Oid(ref.n)

Max(a, b) == IF a >= b THEN a ELSE b

Abs(x) == IF x < 0 THEN 0 - x ELSE x

Range(s) == { s[i] : i \in 1..Len(s) }

RECURSIVE SelectIdx(_, _, _)
\* the first index i >= from of s with s[i]._id = id, 0 if there is none
SelectIdx(s, id, from) ==
    IF from > Len(s) THEN 0
    ELSE IF s[from]._id = id THEN from
    ELSE SelectIdx(s, id, from + 1)

\* collection.find_one({"_id": ObjectId}) as an index into the collection
FindById(coll, id) == SelectIdx(coll, id, 1)

----------------------------------------------------------------------------
(* The import tree.  os.walk visits the root first; a file is its          *)
(* directory (components below the import root, <<".">> for the root),     *)
(* its name and the faces analyze_image returns for it: those of a score   *)
(* of min_score or more that keep edge_margin pixels to every edge.        *)

Name(dot, stem, ext) == [dot |-> dot, stem |-> stem, ext |-> ext]

\* a detected face: embedding, det_score, embedding.shape[0] and the bbox
Face(emb, score, dim, top, right, bottom, left) ==
    [emb |-> emb, det_score |-> score, dim |-> dim,
     location |-> [top |-> top, right |-> right, bottom |-> bottom, left |-> left]]

\* a file of the import tree
File(dir, name, width, height, fcs) ==
    [dir |-> dir, name |-> name, width |-> width, height |-> height, faces |-> fcs]

\* two images (one face of 512 dimensions, one of 128), a dotfile and a
\* text file
ResumeTree ==
    << File(<<".">>,   Name(FALSE, "a", "jpg"),     100, 100,
            << Face(1, 68, 512, 20, 60, 60, 20) >>),
       File(<<".">>,   Name(TRUE, "d", "jpg"),      100, 100, << >>),
       File(<<"sub">>, Name(FALSE, "b", "png"),     100, 100,
            << Face(0, 80, 128, 50, 90, 90, 50) >>),
       File(<<"sub">>, Name(FALSE, "notes", "txt"), 0, 0, << >>) >>

\* two images: the face of a.jpg, and in b.png the same person at a higher
\* score, a 128-d face and a face at similarity 0.5 to the first
ClusterTree ==
    << File(<<".">>,   Name(FALSE, "a", "jpg"), 100, 100,
            << Face(1, 68, 512, 20, 60, 60, 20) >>),
       File(<<"sub">>, Name(FALSE, "b", "png"), 100, 100,
            << Face(1, 90, 512, 10, 50, 50, 10),
               Face(0, 80, 128, 50, 90, 90, 50),
               Face(3, 70, 512, 50, 90, 90, 50) >>) >>

\* two images of one person: a face at the margin of a.jpg, a face well
\* inside b.png
MaintTree ==
    << File(<<".">>,   Name(FALSE, "a", "jpg"), 100, 100,
            << Face(1, 90, 512, 10, 50, 50, 10) >>),
       File(<<"sub">>, Name(FALSE, "b", "png"), 100, 100,
            << Face(1, 70, 512, 20, 60, 60, 20) >>) >>

\* five images, enough pending tasks for the scaler to add a worker to a pool
\* it has scaled down; one of them has a face
PoolTree ==
    << File(<<".">>, Name(FALSE, "a", "jpg"), 100, 100,
            << Face(1, 68, 512, 20, 60, 60, 20) >>),
       File(<<".">>, Name(FALSE, "b", "jpg"), 100, 100, << >>),
       File(<<".">>, Name(FALSE, "c", "jpg"), 100, 100, << >>),
       File(<<".">>, Name(FALSE, "e", "jpg"), 100, 100, << >>),
       File(<<".">>, Name(FALSE, "f", "jpg"), 100, 100, << >>) >>

\* an image ingested by an earlier run, the same person at a lower score
SeedFile == File(<<".">>, Name(FALSE, "x", "jpg"), 100, 100,
                 << Face(1, 66, 512, 20, 60, 60, 20) >>)

Files == 1..Len(tree)

\* mimetypes.guess_type: decided by the extension, None when unknown
guess_type(name) ==
    CASE name.ext = "jpg" -> "image/jpeg"
      [] name.ext = "png" -> "image/png"
      [] name.ext = "txt" -> "text/plain"
      [] OTHER -> ""

\* mime_type.startswith('image/')
IsImageMime(m) == m \in {"image/jpeg", "image/png"}

\* BatchProcessor.run: log_key of a file
LogKeyOf(dir, name) == IF dir = <<".">> THEN << name >> ELSE dir \o << name >>

log_key(f) == LogKeyOf(tree[f].dir, tree[f].name)

\* np.dot of two L2-normalised embeddings
Sim(a, b) == 100 - 25 * Abs(a - b)

threshold == 45

----------------------------------------------------------------------------
(* The progress log.  A line is what json.loads makes of it:               *)
(*   "rec"    a complete {"key":..,"data":..} record                       *)
(*   "torn"   the prefix of a record, cut before its newline               *)
(*   "junk"   a torn record and the record appended behind it, one line     *)
(*   "other"  a JSON object or array or string without "key" and "data"    *)
(*   "scalar" a JSON number, null, true or false                           *)
(*   "blank"  white space                                                  *)
(* "torn" and "junk" raise json.JSONDecodeError; on a "scalar" the test    *)
(* "key" in entry raises TypeError, which only the handler around the      *)
(* whole file catches.                                                     *)

LogLine(kind, key, data) == [kind |-> kind, key |-> key, data |-> data]

RECURSIVE LoadLines(_, _, _)
LoadLines(lines, i, log_data) ==
    IF i > Len(lines) THEN log_data
    ELSE IF lines[i].kind = "rec"
         THEN LoadLines(lines, i + 1, log_data \cup {lines[i].key})
         ELSE IF lines[i].kind = "scalar"
              THEN log_data               \* except Exception: print; return log_data
              ELSE LoadLines(lines, i + 1, log_data)   \* continue

\* a loader that starts at the second line of the file
load_processed_log_from_second(lines) == LoadLines(lines, 2, {})

\* BatchProcessor.load_processed_log: the keys of log_data
load_processed_log(lines) == LoadLines(lines, 1, {})

\* BatchProcessor.append_to_log: open(..., 'a') writes after the last byte,
\* so a record written behind a torn one shares its line
append_to_log(lines, key, data) ==
    IF Len(lines) > 0 /\ lines[Len(lines)].kind = "torn"
    THEN [lines EXCEPT ![Len(lines)] = LogLine("junk", key, data)]
    ELSE Append(lines, LogLine("rec", key, data))

----------------------------------------------------------------------------
(* Folders *)

\* a find_one that finds no folder
NoFolder(fs, path, from) == 0

RECURSIVE FolderIdx(_, _, _)
\* db.folders.find_one({"path": path}) as an index, 0 when there is none
FolderIdx(fs, path, from) ==
    IF from > Len(fs) THEN 0
    ELSE IF fs[from].path = path THEN from
    ELSE FolderIdx(fs, path, from + 1)

RECURSIVE MaterialiseFrom(_, _, _, _, _)
\* the loop of get_or_create_folder over parts[i..]; the state is the
\* folders collection, the id counter and parent_id
MaterialiseFrom(parts, i, fs, n, parent_id) ==
    IF i > Len(parts) THEN [folders |-> fs, ctr |-> n, parent_id |-> parent_id]
    ELSE LET current_path == SubSeq(parts, 1, i)
             at == FolderIdx(fs, current_path, 1)
         IN IF at = 0
            THEN MaterialiseFrom(parts, i + 1,
                     Append(fs, [_id |-> n + 1, name |-> parts[i],
                                 parent_id |-> parent_id, path |-> current_path]),
                     n + 1, Oid(n + 1))
            ELSE MaterialiseFrom(parts, i + 1, fs, n, Oid(fs[at]._id))

\* BatchProcessor.get_or_create_folder(relative_path)
get_or_create_folder(relative_path, fs, n) ==
    IF relative_path = << >> \/ relative_path = <<".">>
    THEN [folders |-> fs, ctr |-> n, parent_id |-> NoRef]
    ELSE LET r == MaterialiseFrom(relative_path, 1, fs, n, NoRef)
         IN [r EXCEPT !.parent_id = Str(r.parent_id.n)]

RECURSIVE WalkFrom(_, _, _, _, _)
\* the os.walk loop of BatchProcessor.run from file i on: the candidates
\* found so far, the folders collection and its id counter
WalkFrom(i, processed_log, candidates, fs, n) ==
    IF i > Len(tree) THEN [candidates |-> candidates, folders |-> fs, ctr |-> n]
    ELSE LET file == tree[i]
             g == IF file.dir # <<".">>
                  THEN get_or_create_folder(file.dir, fs, n)
                  ELSE [folders |-> fs, ctr |-> n, parent_id |-> NoRef]
             key == LogKeyOf(file.dir, file.name)
             skip == \/ key \in processed_log
                     \/ file.name.dot
                     \/ ~IsImageMime(guess_type(file.name))
         IN WalkFrom(i + 1, processed_log,
                     IF skip THEN candidates
                     ELSE Append(candidates,
                              [file |-> i, folder_id |-> g.parent_id, log_key |-> key]),
                     g.folders, g.ctr)

----------------------------------------------------------------------------
(* Matching *)

RECURSIVE ArgMaxFrom(_, _, _, _)
\* np.argmax(np.dot(matrix, face_encoding)): the first index of the maximum
ArgMaxFrom(pairs, q, i, best) ==
    IF i > Len(pairs) THEN best
    ELSE ArgMaxFrom(pairs, q, i + 1,
                    IF Sim(pairs[i].enc, q) > Sim(pairs[best].enc, q) THEN i ELSE best)

ArgMax(pairs, q) == ArgMaxFrom(pairs, q, 2, 1)

\* find_matching_person_optimized, given the worker's initial matrix and its
\* (refreshed) cache of the shared list
MatchIn(face_encoding, initial, cached_new) ==
    LET s1 == IF initial # << >>
              THEN LET idx == ArgMax(initial, face_encoding)
                   IN [sim |-> Sim(initial[idx].enc, face_encoding),
                       pid |-> initial[idx].pid]
              ELSE [sim |-> -100, pid |-> NoRef]
        s2 == IF cached_new # << >>
              THEN LET idx == ArgMax(cached_new, face_encoding)
                   IN IF Sim(cached_new[idx].enc, face_encoding) > s1.sim
                      THEN [sim |-> Sim(cached_new[idx].enc, face_encoding),
                            pid |-> cached_new[idx].pid]
                      ELSE s1
              ELSE s1
    IN IF s2.sim > threshold THEN s2.pid ELSE NoRef

\* a cache that is built once and kept
RefreshOnce(w, shared) ==
    IF Len(shared) > 0 /\ w.last_len = 0
    THEN [cached_new |-> shared, last_len |-> Len(shared)]
    ELSE [cached_new |-> w.cached_new, last_len |-> w.last_len]

\* the cache of the shared list after the refresh test of
\* find_matching_person_optimized
RefreshCache(w, shared) ==
    IF Len(shared) > 0 /\ Len(shared) # w.last_len
    THEN [cached_new |-> shared, last_len |-> Len(shared)]
    ELSE [cached_new |-> w.cached_new, last_len |-> w.last_len]

\* get_person_best_score_from_db
get_person_best_score_from_db(ps, person_id) ==
    LET at == FindById(ps, ObjectId(person_id).n)
    IN IF at # 0 /\ ps[at].best_face_score # Null THEN ps[at].best_face_score ELSE 0

\* update_person_best_score_in_db
update_person_best_score_in_db(ps, person_id, score) ==
    [ i \in 1..Len(ps) |->
        IF ps[i]._id = ObjectId(person_id).n
        THEN [ps[i] EXCEPT !.best_face_score = score]
        ELSE ps[i] ]

RECURSIVE KnownFrom(_, _)
\* BatchProcessor.get_all_known_faces
KnownFrom(fs, i) ==
    IF i > Len(fs) THEN << >>
    ELSE IF fs[i].encoding = "list" /\ fs[i].dim = 512
         THEN << [pid |-> fs[i].person_id, enc |-> fs[i].emb] >> \o KnownFrom(fs, i + 1)
         ELSE KnownFrom(fs, i + 1)

get_all_known_faces(fs) == KnownFrom(fs, 1)

----------------------------------------------------------------------------
(* Worker processes *)

NoTask == [file |-> 0, folder_id |-> NoRef, log_key |-> << >>]

\* a worker process after init_worker; the locals of process_image_task are
\* those live across its database calls. matched is what the matcher
\* returned for the current face, created the persons inserted for it
NewWorker ==
    [alive |-> TRUE, pc |-> "idle", task |-> NoTask, fi |-> 0, image_id |-> Null,
     matched |-> NoRef, created |-> << >>, person_id |-> NoRef,
     best_score |-> 0, exists |-> FALSE,
     faces_info |-> << >>, cached_new |-> << >>, last_len |-> 0]

RECURSIVE NextFace(_, _)
\* the next index >= i of a face the loop of process_image_task does not
\* `continue` over (encoding.shape == (512,)), 0 when the loop is over
NextFace(fcs, i) ==
    IF i > Len(fcs) THEN 0
    ELSE IF fcs[i].dim = 512 THEN i
    ELSE NextFace(fcs, i + 1)

\* where process_image_task goes on with face index i
Advance(w, i) ==
    LET n == NextFace(tree[w.task.file].faces, i)
    IN IF n = 0 THEN [w EXCEPT !.pc = "finish", !.fi = 0]
       ELSE [w EXCEPT !.pc = "match", !.fi = n]

CurrentFace(w) == tree[w.task.file].faces[w.fi]

Busy(w) == w.alive /\ w.pc # "idle"

\* a worker loop that is left when a task is over
IdleExits(w) == [NewWorker EXCEPT !.alive = FALSE]

\* the worker between two tasks: the module-level cache outlives the task
Idle(w) == [NewWorker EXCEPT !.cached_new = w.cached_new, !.last_len = w.last_len]

\* a process that is no longer alive
DeadWorker == [NewWorker EXCEPT !.alive = FALSE]

\* the keys of the two objects of an image: the original under
\* unique_filename, the thumbnail under thumb_<unique_filename>
ObjectKinds == { "orig", "thumb" }

Obj(kind, image_id) == [kind |-> kind, image |-> image_id]

\* StorageService.upload_bytes / upload_fileobj for the objects of an image;
\* put is the set of those whose s3.upload_fileobj went through (the others
\* print the error and return False)
Uploaded(b, image_id, put) == b \cup { Obj(k, image_id) : k \in put }

\* worker_loop: task_queue.get, then process_image_task up to
\* db.images.insert_one
W_Begin(i, put) ==
    LET w == workers[i]
        task == Head(task_queue)
        file == tree[task.file]
        id == ctr.images + 1
    IN /\ w.alive /\ w.pc = "idle"
       /\ task_queue # << >>
       /\ put # ObjectKinds => host.upload_enabled /\ hist.faults < MaxFaults
       /\ task_queue' = Tail(task_queue)
       /\ bucket' = IF host.upload_enabled THEN Uploaded(bucket, id, put) ELSE bucket
       /\ images' = Append(images,
              [_id |-> id, relative_path |-> task.log_key, processed |-> TRUE,
               is_uploaded |-> host.upload_enabled, folder_id |-> task.folder_id,
               width |-> file.width, height |-> file.height, faces |-> << >>])
       /\ ctr' = [ctr EXCEPT !.images = id]
       /\ workers' = [workers EXCEPT ![i] =
              Advance([w EXCEPT !.task = task, !.image_id = id], 1)]
       /\ hist' = [hist EXCEPT !.begun = @ \cup {task.log_key},
                               !.faults = IF put = ObjectKinds THEN @ ELSE @ + 1]
       /\ UNCHANGED << callers, codec, matcher, tree, host, log, faces, persons, folders,
                       thumbs, sched, result_queue, new_faces_list,
                       initial_faces >>

\* a test of the matcher's answer that never creates a person
after_match_never_create(pid) == "read"

\* if not person_id: where process_image_task goes on after the matcher
after_match(pid) == IF pid = NoRef THEN "create" ELSE "read"

\* person_id = find_matching_person_optimized(encoding)
W_Match(i) ==
    LET w == workers[i]
        c == RefreshCache(w, new_faces_list)
        pid == MatchIn(CurrentFace(w).emb, initial_faces, c.cached_new)
    IN /\ w.alive /\ w.pc = "match"
       /\ workers' = [workers EXCEPT ![i] =
              [w EXCEPT !.cached_new = c.cached_new, !.last_len = c.last_len,
                        !.matched = pid, !.created = << >>, !.person_id = pid,
                        !.pc = after_match(pid)]]
       /\ UNCHANGED << callers, bucket, codec, matcher, tree, host, log, images, faces, persons, folders, thumbs, ctr,
                       sched, task_queue, result_queue, new_faces_list,
                       initial_faces, hist >>

\* if not person_id: db.persons.insert_one, WORKER_NEW_FACES.append
W_Create(i) ==
    LET w == workers[i]
        id == ctr.persons + 1
    IN /\ w.alive /\ w.pc = "create"
       /\ persons' = Append(persons,
              [_id |-> id, name |-> "", best_face_score |-> Null,
               representative_face_id |-> NoRef])
       /\ ctr' = [ctr EXCEPT !.persons = id]
       /\ new_faces_list' = Append(new_faces_list,
              [pid |-> Str(id), enc |-> CurrentFace(w).emb])
       /\ workers' = [workers EXCEPT ![i] =
              [w EXCEPT !.person_id = Str(id), !.created = Append(@, id), !.pc = "read"]]
       /\ UNCHANGED << callers, bucket, codec, matcher, tree, host, log, images, faces, folders, thumbs, sched,
                       task_queue, result_queue, initial_faces, hist >>

\* best_score = get_person_best_score_from_db; os.path.exists(local_face_path)
W_Read(i) ==
    LET w == workers[i]
    IN /\ w.alive /\ w.pc = "read"
       /\ workers' = [workers EXCEPT ![i] =
              [w EXCEPT !.best_score = get_person_best_score_from_db(persons, w.person_id),
                        !.exists = (w.person_id.n \in thumbs),
                        !.pc = "write"]]
       /\ UNCHANGED << callers, bucket, codec, matcher, tree, host, log, images, faces, persons, folders, thumbs, ctr,
                       sched, task_queue, result_queue, new_faces_list,
                       initial_faces, hist >>

\* a face document that stores what the matcher returned
FaceDocOfMatch(w, id, f, local_face_path) ==
    [_id |-> id, image_id |-> Oid(w.image_id), person_id |-> w.matched,
     encoding |-> "list", emb |-> f.emb, dim |-> f.dim,
     location |-> f.location, thumbnail_path |-> local_face_path,
     det_score |-> f.det_score]

\* the document of db.faces.insert_one
FaceDoc(w, id, f, local_face_path) ==
    [_id |-> id, image_id |-> Oid(w.image_id), person_id |-> w.person_id,
     encoding |-> "list", emb |-> f.emb, dim |-> f.dim,
     location |-> f.location, thumbnail_path |-> local_face_path,
     det_score |-> f.det_score]

\* the representative update and db.faces.insert_one; saved is whether
\* face_img.save went through
W_Write(i, saved) ==
    LET w == workers[i]
        f == CurrentFace(w)
        update == f.det_score > w.best_score \/ ~w.exists
        id == ctr.faces + 1
        thumbs1 == IF update /\ saved THEN thumbs \cup {w.person_id.n} ELSE thumbs
        local_face_path == IF w.person_id.n \in thumbs1 \/ ~update
                           THEN w.person_id.n ELSE Null
    IN /\ w.alive /\ w.pc = "write"
       /\ ~saved => update /\ hist.faults < MaxFaults
       /\ thumbs' = thumbs1
       /\ persons' = IF update /\ saved
                     THEN update_person_best_score_in_db(persons, w.person_id, f.det_score)
                     ELSE persons
       /\ faces' = Append(faces, FaceDoc(w, id, f, local_face_path))
       /\ ctr' = [ctr EXCEPT !.faces = id]
       /\ workers' = [workers EXCEPT ![i] =
              Advance([w EXCEPT !.faces_info =
                          Append(@, [face_id |-> Str(id), person_id |-> w.person_id])],
                      w.fi + 1)]
       /\ hist' = IF saved THEN hist ELSE [hist EXCEPT !.faults = @ + 1]
       /\ UNCHANGED << callers, bucket, codec, matcher, tree, host, log, images, folders, sched, task_queue,
                       result_queue, new_faces_list, initial_faces >>

\* db.images.update_one({"$set": {"faces": face_ids}}); return; result_queue.put
W_Finish(i) ==
    LET w == workers[i]
    IN /\ w.alive /\ w.pc = "finish"
       /\ images' = [ k \in 1..Len(images) |->
              IF images[k]._id = w.image_id
              THEN [images[k] EXCEPT !.faces =
                       [ j \in 1..Len(w.faces_info) |-> Oid(w.faces_info[j].face_id.n) ]]
              ELSE images[k] ]
       /\ result_queue' = Append(result_queue,
              [log_key |-> w.task.log_key, ok |-> TRUE, faces_info |-> w.faces_info])
       /\ workers' = [workers EXCEPT ![i] = Idle(w)]
       /\ hist' = [hist EXCEPT !.returned = @ \cup {w.task.log_key}]
       /\ UNCHANGED << callers, bucket, codec, matcher, tree, host, log, faces, persons, folders, thumbs, ctr, sched,
                       task_queue, new_faces_list, initial_faces >>

\* an exception inside process_image_task: except Exception: return None
W_Fail(i) ==
    LET w == workers[i]
    IN /\ Busy(w)
       /\ hist.faults < MaxFaults
       /\ result_queue' = Append(result_queue,
              [log_key |-> w.task.log_key, ok |-> FALSE, faces_info |-> << >>])
       /\ workers' = [workers EXCEPT ![i] = Idle(w)]
       /\ hist' = [hist EXCEPT !.faults = @ + 1]
       /\ UNCHANGED << callers, bucket, codec, matcher, tree, host, log, images, faces, persons, folders, thumbs, ctr,
                       sched, task_queue, new_faces_list, initial_faces >>

\* worker_loop: task_queue.get, then an exception inside process_image_task
\* before db.images.insert_one (open, Image.open, create_thumbnail):
\* return None, result_queue.put
W_FailEarly(i) ==
    LET w == workers[i]
        task == Head(task_queue)
    IN /\ w.alive /\ w.pc = "idle"
       /\ task_queue # << >>
       /\ hist.faults < MaxFaults
       /\ task_queue' = Tail(task_queue)
       /\ result_queue' = Append(result_queue,
              [log_key |-> task.log_key, ok |-> FALSE, faces_info |-> << >>])
       /\ hist' = [hist EXCEPT !.faults = @ + 1, !.begun = @ \cup {task.log_key}]
       /\ UNCHANGED << callers, bucket, codec, matcher, tree, host, log, images, faces,
                       persons, folders, thumbs, ctr, sched, workers,
                       new_faces_list, initial_faces >>

\* the worker process dies (killed by the OS, crash of the detector)
W_Die(i) ==
    /\ workers[i].alive
    /\ hist.faults < MaxFaults
    /\ workers' = [workers EXCEPT ![i] = DeadWorker]
    /\ hist' = [hist EXCEPT !.faults = @ + 1, !.deaths = @ + 1]
    /\ UNCHANGED << callers, bucket, codec, matcher, tree, host, log, images, faces, persons, folders, thumbs, ctr,
                    sched, task_queue, result_queue, new_faces_list, initial_faces >>

----------------------------------------------------------------------------
(* The scheduler: BatchProcessor.run *)

MIN_WORKERS == 1
MEM_HIGH_THRESHOLD == 85
MEM_LOW_THRESHOLD == 60
CPU_HIGH_THRESHOLD == 90

SCALE_COOLDOWN == 10

\* what time.time() has advanced by from one pass of the main loop to the
\* next, in seconds: now - last_scale_time reaches the cooldown exactly, or
\* passes it
Ticks == {10, 11}

\* now - last_scale_time after dt more seconds; a value above the cooldown
\* stands for every value above it
Elapse(elapsed, dt) ==
    IF elapsed + dt > SCALE_COOLDOWN THEN SCALE_COOLDOWN + 1 ELSE elapsed + dt

\* a scaler that never sets last_scale_time
KeepTime(elapsed, scaled) == elapsed

\* last_scale_time = now, in the two branches that scale
Restart(elapsed, scaled) == IF scaled THEN 0 ELSE elapsed

\* the pass of the main loop before this state has not scaled
NoScaling == [kind |-> "", mem_percent |-> 0, cpu_percent |-> 0, pool |-> 0,
              pending |-> 0, since |-> 0]

\* psutil samples, one per side of each threshold
MemSamples == {50, 70, 90}
CpuSamples == {50, 95}

Count(q, f) == Cardinality({ j \in 1..Len(q) : q[j].file = f })

\* the keys of the complete records of a log file
RecordKeys(lines) == { lines[j].key : j \in { k \in 1..Len(lines) : lines[k].kind = "rec" } }

NoRun == [pc |-> "idle", processed_log |-> {}, total_tasks |-> 0,
          processed_count_session |-> 0, MAX_WORKERS |-> 1, elapsed |-> 0]

\* run() from its first line to the entry of the main loop
StartRun ==
    LET processed_log == load_processed_log(log)
        w == WalkFrom(1, processed_log, << >>, folders, ctr.folders)
        candidates == w.candidates
        none == candidates = << >>
    IN /\ sched.pc \in {"idle", "done"}
       /\ Len(hist.ended) < host.runs
       /\ folders' = w.folders
       /\ ctr' = [ctr EXCEPT !.folders = w.ctr]
       /\ sched' = IF none THEN [NoRun EXCEPT !.pc = "done"]
                   ELSE [pc |-> "loop",
                         processed_log |-> processed_log,
                         total_tasks |-> Len(candidates),
                         processed_count_session |-> 0,
                         MAX_WORKERS |-> Max(1, host.cpu_count - 1),
                         elapsed |-> 0]
       /\ task_queue' = candidates
       /\ result_queue' = << >>
       /\ workers' = IF none THEN << >> ELSE << NewWorker, NewWorker >>
       /\ new_faces_list' = << >>
       /\ initial_faces' = IF none THEN << >> ELSE get_all_known_faces(faces)
       /\ hist' = [hist EXCEPT !.startKeys = RecordKeys(log),
                               !.enq = [f \in Files |-> Count(candidates, f)],
                               !.begun = {},
                               !.returned = {},
                               !.last = "other",
                               !.since = 0,
                               !.scaling = NoScaling,
                               !.ended = Append(@, IF none THEN "completed" ELSE "running")]
       /\ UNCHANGED << callers, bucket, codec, matcher, tree, host, log, images, faces, persons, thumbs >>

\* a handling that logs every dequeued result
HandleAnyResult(lines, r) == append_to_log(lines, r.log_key, r.faces_info)

\* the log after the handling of a dequeued result: if result: append_to_log
HandleResult(lines, r) ==
    IF r.ok THEN append_to_log(lines, r.log_key, r.faces_info) ELSE lines

\* step 1 of the loop: one result_queue.get_nowait() and its handling
S_Result ==
    LET r == Head(result_queue)
    IN /\ sched.pc = "loop"
       /\ result_queue # << >>
       /\ result_queue' = Tail(result_queue)
       /\ log' = HandleResult(log, r)
       /\ sched' = [sched EXCEPT
              !.processed_log = IF r.ok THEN @ \cup {r.log_key} ELSE @,
              !.processed_count_session = @ + 1]
       /\ UNCHANGED << callers, bucket, codec, matcher, tree, host, images, faces, persons, folders, thumbs, ctr,
                       task_queue, workers, new_faces_list, initial_faces, hist >>

Alive(ws) == SelectSeq(ws, LAMBDA w : w.alive)

Dead(ws) == SelectSeq(ws, LAMBDA w : ~w.alive)

\* step 2 of the loop: the for loop calls spawn_worker() for every worker
\* whose is_alive() is false, then the list is filtered by a second
\* is_alive(); late is the worker that dies between the two tests (0: none)
Monitor(ws, late) ==
    LET now == IF late = 0 THEN ws ELSE [ws EXCEPT ![late] = DeadWorker]
    IN Alive(now) \o [ j \in 1..Len(Dead(ws)) |-> NewWorker ]

\* step 3 of the loop, cooldown elapsed: the list of workers after scaling
Scale(ws, mem_percent, cpu_percent, pending) ==
    IF mem_percent > MEM_HIGH_THRESHOLD /\ Len(ws) > MIN_WORKERS
    THEN SubSeq(ws, 1, Len(ws) - 1)
    ELSE IF /\ mem_percent < MEM_LOW_THRESHOLD
            /\ cpu_percent < CPU_HIGH_THRESHOLD
            /\ Len(ws) < sched.MAX_WORKERS
            /\ pending > Len(ws) * 2
         THEN Append(ws, NewWorker)
         ELSE ws

\* the state in which run() returns: workers terminated, queues and manager
\* closed
EndRun(outcome) ==
    /\ sched' = [NoRun EXCEPT !.pc = "done"]
    /\ workers' = << >>
    /\ task_queue' = << >>
    /\ result_queue' = << >>
    /\ new_faces_list' = << >>
    /\ initial_faces' = << >>
    /\ hist' = [hist EXCEPT !.ended[Len(hist.ended)] = outcome,
                            !.since = 0,
                            !.scaling = NoScaling]

\* queue.Empty, then steps 2 and 3, the sleep and the loop test; when the
\* loop is left, the finally block
S_Monitor(dt, mem_percent, cpu_percent, late) ==
    LET ws1 == Monitor(workers, late)
        elapsed == Elapse(sched.elapsed, dt)
        pending == sched.total_tasks - sched.processed_count_session
        ws2 == IF elapsed > SCALE_COOLDOWN
               THEN Scale(ws1, mem_percent, cpu_percent, pending)
               ELSE ws1
        scaled == Len(ws2) # Len(ws1)
        seen == [kind |-> IF Len(ws2) < Len(ws1) THEN "down" ELSE "up",
                 mem_percent |-> mem_percent, cpu_percent |-> cpu_percent,
                 pool |-> Len(ws1), pending |-> pending,
                 since |-> Elapse(hist.since, dt)]
    IN /\ sched.pc = "loop"
       /\ result_queue = << >>
       /\ IF sched.processed_count_session < sched.total_tasks
          THEN /\ late # 0 => workers[late].alive /\ hist.faults < MaxFaults
               /\ workers' = ws2
               /\ sched' = [sched EXCEPT !.elapsed = Restart(elapsed, scaled)]
               /\ hist' = [hist EXCEPT
                      !.faults = IF late = 0 THEN @ ELSE @ + 1,
                      !.deaths = IF late = 0 THEN @ ELSE @ + 1,
                      !.since = IF scaled THEN 0 ELSE Elapse(@, dt),
                      !.scaling = IF scaled THEN seen ELSE NoScaling]
               /\ UNCHANGED << matcher, task_queue, result_queue, new_faces_list,
                               initial_faces >>
          ELSE late = 0 /\ EndRun("completed")
       /\ UNCHANGED << callers, bucket, codec, matcher, tree, host, log, images, faces, persons, folders, thumbs, ctr >>

\* the run is stopped from outside, at any point of the main loop: Ctrl-C
\* (KeyboardInterrupt, then the finally block) or a kill of the process
\* group; torn: the kill falls into the write of append_to_log and leaves
\* a prefix of the record
Kill(torn) ==
    /\ sched.pc = "loop"
    /\ torn => /\ result_queue # << >>
               /\ Head(result_queue).ok
               /\ ~(Len(log) > 0 /\ log[Len(log)].kind = "torn")
    /\ log' = IF torn
              THEN Append(log, LogLine("torn", Head(result_queue).log_key, << >>))
              ELSE log
    /\ EndRun("stopped")
    /\ UNCHANGED << callers, bucket, codec, matcher, tree, host, images, faces, persons, folders, thumbs, ctr >>

----------------------------------------------------------------------------
(* encoding_utils.  A vector is its dtype, its number of elements and its  *)
(* buffer; bytes are their length and the same buffer, and carry no dtype.  *)

Vector(dtype, n, raw) == << dtype, n, raw >>

DType(v) == v[1]

Size(v) == v[2]

Buffer(v) == v[3]

Bytes(len, raw) == << len, raw >>

ByteLen(data) == data[1]

Content(data) == data[2]

NoVector == Vector("", 0, 0)

NoBytes == Bytes(0, 0)

\* what a call left: an array, or an exception in place of it
IsVector(v) == DType(v) \in { "float32", "float64" }

\* np.dtype(dtype).itemsize
itemsize(dtype) == IF dtype = "float32" THEN 4 ELSE 8

\* encoding.tobytes()
encoding_to_bytes(encoding) ==
    Bytes(Size(encoding) * itemsize(DType(encoding)), Buffer(encoding))

\* np.frombuffer(data, dtype=dtype)
frombuffer(data, dtype) ==
    IF ByteLen(data) % itemsize(dtype) = 0
    THEN Vector(dtype, ByteLen(data) \div itemsize(dtype), Content(data))
    ELSE Vector("ValueError", 0, 0)   \* buffer size must be a multiple of element size

\* a decoder that reads every buffer as float32
bytes_to_float32(data) == frombuffer(data, "float32")

\* bytes_to_encoding(data): the dtype is chosen by the byte length
bytes_to_encoding(data) ==
    IF ByteLen(data) = 2048 THEN frombuffer(data, "float32")
    ELSE IF ByteLen(data) = 1024 THEN frombuffer(data, "float64")
    ELSE IF ByteLen(data) = 512 THEN frombuffer(data, "float32")
    ELSE frombuffer(data, "float64")

\* encoding_utils has converted nothing yet
NoCodec == [op |-> "none", v |-> NoVector, data |-> NoBytes, out |-> NoVector]

----------------------------------------------------------------------------
(* The ingestion system: an empty catalogue and an import tree, then runs   *)
(* of the batch processor, each of which may be stopped and restarted       *)

\* no call of _find_matching_person yet
NoMatch == [op |-> "none", q |-> << >>, pe |-> << >>, tolerance |-> 0,
            result |-> << >>]

NoHist ==
    [startKeys |-> {},     \* keys of the complete records of the log at start-up
     enq |-> << >>,        \* task_queue.put calls of the run, per file
     begun |-> {},         \* keys of the tasks workers took in the run
     returned |-> {},      \* keys of the tasks that returned a result tuple
     ended |-> << >>,      \* how each run so far ended
     faults |-> 0,         \* faults injected so far
     deaths |-> 0,         \* those of the faults that were deaths of a worker
     uploads |-> 0,        \* upload requests served so far
     client_uploads |-> 0, \* those with faces detected by the client
     since |-> 0,          \* seconds since the scaler last scaled, or since the
                           \* main loop was entered, as Elapse counts them
     scaling |-> NoScaling, \* what the scaler saw when the last pass scaled
     force |-> FALSE,      \* --force of the last run of cleanup.py
     confirm |-> "",       \* what its operator typed at "Are you sure? (y/N): "
     last |-> "other"]     \* the last operation on the catalogue: "fixup" is a
                           \* run of fixup.main() to its end, both passes

EmptyCatalogue ==
    /\ log = << >>
    /\ images = << >>
    /\ faces = << >>
    /\ persons = << >>
    /\ folders = << >>
    /\ thumbs = {}
    /\ ctr = [images |-> 0, faces |-> 0, persons |-> 0, folders |-> 0]
    /\ sched = NoRun
    /\ task_queue = << >>
    /\ result_queue = << >>
    /\ workers = << >>
    /\ new_faces_list = << >>
    /\ initial_faces = << >>
    /\ callers = << >>
    /\ bucket = {}
    /\ codec = NoCodec /\ matcher = NoMatch
    /\ hist = NoHist

Init ==
    /\ tree = ResumeTree
    /\ host = [cpu_count |-> 3, upload_enabled |-> FALSE, runs |-> MaxRuns]
    /\ EmptyCatalogue

Next ==
    \/ StartRun
    \/ S_Result
    \/ \E dt \in Ticks, mem \in MemSamples, cpu \in CpuSamples,
          late \in 0..Len(workers) :
          S_Monitor(dt, mem, cpu, late)
    \/ \E torn \in BOOLEAN : Kill(torn)
    \/ \E i \in 1..Len(workers) :
          \/ \E put \in SUBSET ObjectKinds : W_Begin(i, put)
          \/ W_Match(i)
          \/ W_Create(i)
          \/ W_Read(i)
          \/ \E saved \in BOOLEAN : W_Write(i, saved)
          \/ W_Finish(i)
          \/ W_Fail(i)
          \/ W_FailEarly(i)
          \/ W_Die(i)

Spec == Init /\ [][Next]_vars

\* the catalogue a completed run leaves of a tree that holds SeedFile only
SeededCatalogue ==
    /\ log = << LogLine("rec", << SeedFile.name >>,
                        << [face_id |-> Str(1), person_id |-> Str(1)] >>) >>
    /\ images = << [_id |-> 1, relative_path |-> << SeedFile.name >>,
                    processed |-> TRUE, is_uploaded |-> FALSE, folder_id |-> NoRef,
                    width |-> SeedFile.width, height |-> SeedFile.height,
                    faces |-> << Oid(1) >>] >>
    /\ faces = << [_id |-> 1, image_id |-> Oid(1), person_id |-> Str(1),
                   encoding |-> "list", emb |-> SeedFile.faces[1].emb,
                   dim |-> SeedFile.faces[1].dim,
                   location |-> SeedFile.faces[1].location, thumbnail_path |-> 1,
                   det_score |-> SeedFile.faces[1].det_score] >>
    /\ persons = << [_id |-> 1, name |-> "",
                     best_face_score |-> SeedFile.faces[1].det_score,
                     representative_face_id |-> NoRef] >>
    /\ folders = << >>
    /\ thumbs = {1}
    /\ ctr = [images |-> 1, faces |-> 1, persons |-> 1, folders |-> 0]
    /\ sched = [NoRun EXCEPT !.pc = "done"]
    /\ task_queue = << >>
    /\ result_queue = << >>
    /\ workers = << >>
    /\ new_faces_list = << >>
    /\ initial_faces = << >>
    /\ callers = << >>
    /\ bucket = {}
    /\ codec = NoCodec /\ matcher = NoMatch
    /\ hist = NoHist

\* one run over the tree with the faces, on an empty catalogue or on the
\* catalogue of an earlier run
InitCluster ==
    /\ host = [cpu_count |-> 3, upload_enabled |-> FALSE, runs |-> 1]
    /\ \/ tree = ClusterTree /\ EmptyCatalogue
       \/ tree = << SeedFile >> \o ClusterTree /\ SeededCatalogue

SpecCluster == InitCluster /\ [][Next]_vars

\* the next statement of worker_loop and process_image_task in worker i,
\* when nothing goes wrong
W_Step(i) ==
    /\ i <= Len(workers)
    /\ \/ W_Begin(i, ObjectKinds)
       \/ W_Match(i)
       \/ W_Create(i)
       \/ W_Read(i)
       \/ W_Write(i, TRUE)
       \/ W_Finish(i)

\* a run nobody stops: the steps of Next without the Ctrl-C and the kill of
\* the process group;
\* the operating system runs every live process: the main loop makes its
\* passes and takes the results that are there, and every worker gets to
\* its next statement
SpecLive ==
    /\ InitCluster
    /\ [][ \/ StartRun
           \/ S_Result
           \/ \E dt \in Ticks, mem \in MemSamples, cpu \in CpuSamples,
                 late \in 0..Len(workers) :
                 S_Monitor(dt, mem, cpu, late)
           \/ \E i \in 1..Len(workers) :
                 \/ \E put \in SUBSET ObjectKinds : W_Begin(i, put)
                 \/ W_Match(i)
                 \/ W_Create(i)
                 \/ W_Read(i)
                 \/ \E saved \in BOOLEAN : W_Write(i, saved)
                 \/ W_Finish(i)
                 \/ W_Fail(i)
                 \/ W_FailEarly(i)
                 \/ W_Die(i) ]_vars
    /\ WF_vars(S_Result)
    /\ WF_vars(\E dt \in Ticks, mem \in MemSamples, cpu \in CpuSamples :
                  S_Monitor(dt, mem, cpu, 0))
    /\ \A i \in 1..2 : WF_vars(W_Step(i))

\* multiprocessing.cpu_count() of the hosts the pool is checked on
CpuCounts == 1..3

\* one run over PoolTree on an empty catalogue, on a host of any size
InitPool ==
    /\ tree = PoolTree
    /\ \E n \in CpuCounts :
          host = [cpu_count |-> n, upload_enabled |-> FALSE, runs |-> 1]
    /\ EmptyCatalogue

SpecPool == InitPool /\ [][Next]_vars

\* two images: a face in a.jpg, and in b.jpg a face at similarity 0.5 to it
\* and two faces of one person at similarity 0.5 to that one and 0 to the
\* first
ChainTree ==
    << File(<<".">>, Name(FALSE, "a", "jpg"), 100, 100,
            << Face(1, 80, 512, 20, 60, 60, 20) >>),
       File(<<".">>, Name(FALSE, "b", "jpg"), 100, 100,
            << Face(3, 80, 512, 20, 40, 40, 20),
               Face(5, 80, 512, 50, 90, 90, 50),
               Face(5, 70, 512, 50, 90, 40, 20) >>) >>

\* one run over ChainTree on an empty catalogue
InitChain ==
    /\ tree = ChainTree
    /\ host = [cpu_count |-> 3, upload_enabled |-> FALSE, runs |-> 1]
    /\ EmptyCatalogue

SpecChain == InitChain /\ [][Next]_vars


----------------------------------------------------------------------------
(* The API and the maintenance script, on the catalogue the ingestion runs  *)
(* left.  A catalogue is the record of the three collections and the        *)
(* person thumbnails.                                                        *)

insightface_tolerance == 40
face_recognition_tolerance == 60
min_score == 65
edge_margin == 10

Catalogue == [faces |-> faces, images |-> images, persons |-> persons,
              thumbs |-> thumbs]

\* a face document without a "location" field
NoLocation == [top |-> Null, right |-> Null, bottom |-> Null, left |-> Null]

\* the file of the upload requests: two faces of the person of the trees
\* (distance 0.25 to each other) and a face of somebody else
UploadFile == File(<<".">>, Name(FALSE, "u", "jpg"), 100, 100,
                   << Face(1, 80, 512, 20, 60, 60, 20),
                      Face(2, 80, 512, 20, 90, 60, 50),
                      Face(5, 80, 512, 60, 40, 90, 10) >>)

\* the face document of the upload endpoint: the box is stored in bbox_top,
\* bbox_right, bbox_bottom and bbox_left, there is no location and no metadata
RouterFaceDoc(id, image_id, f) ==
    [_id |-> id, image_id |-> Str(image_id), person_id |-> NoRef,
     encoding |-> "bytes", emb |-> f.emb, dim |-> f.dim, location |-> NoLocation,
     thumbnail_path |-> 0, det_score |-> Null, bbox |-> f.location]

\* the image document of the upload endpoint
RouterImageDoc(id, file, face_ids) ==
    [_id |-> id, relative_path |-> << >>, processed |-> TRUE,
     is_uploaded |-> FALSE, folder_id |-> NoRef,
     width |-> file.width, height |-> file.height, faces |-> face_ids]

\* db.faces.find({"person_id": person_id}) as indexes into fs, in order
FacesOf(fs, person_id) ==
    SelectSeq([ k \in 1..Len(fs) |-> k ], LAMBDA k : fs[k].person_id = person_id)

\* collection.delete_one({"_id": ObjectId})
DeleteById(coll, id) == SelectSeq(coll, LAMBDA x : x._id # id)

\* distance of two encodings of dimension dim: cosine distance for 512,
\* Euclidean otherwise (of unit vectors at the same angle)
Distance(a, b, dim) ==
    IF dim = 512 THEN 100 - Sim(a, b)
    ELSE CASE Abs(a - b) = 0 -> 0
           [] Abs(a - b) = 1 -> 71
           [] Abs(a - b) = 2 -> 100
           [] OTHER -> 141

\* clustering_service: the person_encodings dict, a sequence in insertion
\* order of [pid, encs]
PersonEncodings(fs, ps) ==
    LET entry(p) == [pid |-> Str(p._id),
                     encs |-> [ j \in 1..Len(FacesOf(fs, Str(p._id))) |->
                                  LET f == fs[FacesOf(fs, Str(p._id))[j]]
                                  IN [emb |-> f.emb, dim |-> f.dim] ]]
    IN SelectSeq([ k \in 1..Len(ps) |-> entry(ps[k]) ], LAMBDA e : e.encs # << >>)

\* np.dot and the subtraction of two arrays of different lengths raise
\* ValueError
ShapeError == -2

RECURSIVE MinDistance(_, _, _, _)
\* min(distances) over the encodings of one person; the distance to an
\* encoding of another length than the face's raises
MinDistance(encs, q, i, best) ==
    IF i > Len(encs) THEN best
    ELSE IF encs[i].dim # q.dim THEN ShapeError
    ELSE LET dist == Distance(q.emb, encs[i].emb, q.dim)
         IN MinDistance(encs, q, i + 1, IF dist < best THEN dist ELSE best)

RECURSIVE FindMatchFrom(_, _, _, _, _, _)
\* the loop of _find_matching_person over the dict; the result is
\* (person, distance), the person as an index into the dict and 0 for None,
\* or ShapeError for both when a distance raised
FindMatchFrom(pe, q, tolerance, i, best_match, best_distance) ==
    IF i > Len(pe) THEN << best_match, IF best_match = 0 THEN Null ELSE best_distance >>
    ELSE IF pe[i].encs[1].dim # q.dim
         THEN FindMatchFrom(pe, q, tolerance, i + 1, best_match, best_distance)
         ELSE LET min_distance == MinDistance(pe[i].encs, q, 2,
                                      Distance(q.emb, pe[i].encs[1].emb, q.dim))
              IN IF min_distance = ShapeError THEN << ShapeError, ShapeError >>
                 ELSE IF min_distance < tolerance /\ min_distance < best_distance
                 THEN FindMatchFrom(pe, q, tolerance, i + 1, i, min_distance)
                 ELSE FindMatchFrom(pe, q, tolerance, i + 1, best_match, best_distance)

\* a matcher that takes the first person of the dict, whatever its encodings
first_person(q, pe, tolerance) == << IF pe = << >> THEN 0 ELSE 1, 0 >>

_find_matching_person(q, pe, tolerance) == FindMatchFrom(pe, q, tolerance, 1, 0, 1000)

RECURSIVE ClusterFrom(_, _, _, _, _, _)
\* the loop of cluster_faces over the unassigned faces us[i..]; a face whose
\* encoding is a list makes bytes_to_encoding raise, which ends the call, as
\* does a distance that raises
ClusterFrom(us, i, fs, ps, n, pe) ==
    IF i > Len(us) THEN [faces |-> fs, persons |-> ps, ctr |-> n]
    ELSE LET at == us[i]
             face == fs[at]
             q == [emb |-> face.emb, dim |-> face.dim]
             tolerance == IF face.dim = 512 THEN insightface_tolerance
                          ELSE face_recognition_tolerance
             m == _find_matching_person(q, pe, tolerance)[1]
         IN IF face.encoding = "list" \/ m = ShapeError
            THEN [faces |-> fs, persons |-> ps, ctr |-> n]
            ELSE IF m # 0
            THEN ClusterFrom(us, i + 1,
                     [fs EXCEPT ![at].person_id = pe[m].pid], ps, n,
                     [pe EXCEPT ![m].encs = Append(@, q)])
            ELSE ClusterFrom(us, i + 1,
                     [fs EXCEPT ![at].person_id = Str(n + 1)],
                     Append(ps, [_id |-> n + 1, name |-> "", best_face_score |-> Null,
                                 representative_face_id |-> Str(face._id)]),
                     n + 1,
                     Append(pe, [pid |-> Str(n + 1), encs |-> << q >>]))

\* cluster_faces(db, face_ids): building person_encodings raises on a person
\* with a face whose encoding is a list, before anything is written
cluster_faces(fs, ps, n, face_ids) ==
    LET us == SelectSeq([ k \in 1..Len(fs) |-> k ],
                        LAMBDA k : fs[k].person_id = NoRef /\ fs[k]._id \in face_ids)
        raises == \E k \in 1..Len(fs), p \in 1..Len(ps) :
                     fs[k].person_id = Str(ps[p]._id) /\ fs[k].encoding = "list"
    IN IF us = << >> \/ raises THEN [faces |-> fs, persons |-> ps, ctr |-> n]
       ELSE ClusterFrom(us, 1, fs, ps, n, PersonEncodings(fs, ps))

\* the catalogue is at rest: the ingestion runs of the behaviour are over
Offline == sched.pc = "done" /\ Len(hist.ended) = host.runs

\* POST /upload-server-detect of UploadFile: the image document, a face
\* document per detected face, then cluster_faces over the new faces
Upload ==
    LET id == ctr.images + 1
        n == Len(UploadFile.faces)
        new == [ j \in 1..n |-> RouterFaceDoc(ctr.faces + j, id, UploadFile.faces[j]) ]
        c == cluster_faces(faces \o new, persons, ctr.persons,
                           { ctr.faces + j : j \in 1..n })
    IN /\ Offline
       /\ hist.uploads < MaxUploads
       /\ images' = Append(images,
              RouterImageDoc(id, UploadFile, [ j \in 1..n |-> Oid(ctr.faces + j) ]))
       /\ faces' = c.faces
       /\ persons' = c.persons
       /\ ctr' = [ctr EXCEPT !.images = id, !.faces = @ + n, !.persons = c.ctr]
       /\ hist' = [hist EXCEPT !.uploads = @ + 1, !.last = "other"]
       /\ UNCHANGED << callers, bucket, codec, matcher, tree, host, log, folders, thumbs, sched, task_queue,
                       result_queue, workers, new_faces_list, initial_faces >>

\* a merge that moves no face
LeaveFaces(fs, source_id, target_id) == fs

\* db.faces.update_many({"person_id": source_id},
\*                      {"$set": {"person_id": target_id}})
MoveFaces(fs, source_id, target_id) ==
    [ k \in 1..Len(fs) |->
        IF fs[k].person_id = source_id
        THEN [fs[k] EXCEPT !.person_id = target_id]
        ELSE fs[k] ]

\* _update_representative_face(db, person_id)
_update_representative_face(fs, ps, person_id) ==
    LET mine == FacesOf(fs, person_id)
    IN IF mine = << >> THEN ps
       ELSE [ k \in 1..Len(ps) |->
               IF ps[k]._id = ObjectId(person_id).n
               THEN [ps[k] EXCEPT !.representative_face_id = Str(fs[mine[1]]._id)]
               ELSE ps[k] ]

\* POST /persons/merge: merge_persons(db, source_id, target_id)
merge_persons(source_id, target_id) ==
    LET fs1 == MoveFaces(faces, source_id, target_id)
        ps1 == DeleteById(persons, ObjectId(source_id).n)
    IN /\ Offline
       /\ FindById(persons, ObjectId(source_id).n) # 0
       /\ FindById(persons, ObjectId(target_id).n) # 0
       /\ source_id # target_id
       /\ faces' = fs1
       /\ persons' = _update_representative_face(fs1, ps1, target_id)
       /\ hist' = [hist EXCEPT !.last = "other"]
       /\ UNCHANGED << callers, bucket, codec, matcher, tree, host, log, images, folders, thumbs, ctr, sched,
                       task_queue, result_queue, workers, new_faces_list,
                       initial_faces >>

\* DELETE /images/{image_id}: the faces are looked up by the string id
delete_image(image_id) ==
    /\ Offline
    /\ FindById(images, ObjectId(image_id).n) # 0
    /\ faces' = SelectSeq(faces, LAMBDA f : f.image_id # image_id)
    /\ images' = DeleteById(images, ObjectId(image_id).n)
    /\ hist' = [hist EXCEPT !.last = "other"]
    /\ UNCHANGED << callers, bucket, codec, matcher, tree, host, log, persons, folders, thumbs, ctr, sched,
                    task_queue, result_queue, workers, new_faces_list,
                    initial_faces >>


RECURSIVE PruneFrom(_, _, _)
\* the loop of prune_faces over its snapshot of db.faces; an image_id that
\* is a string finds no image and the face is skipped
PruneFrom(snapshot, i, db) ==
    IF i > Len(snapshot) THEN db
    ELSE LET face == snapshot[i]
             im == IF face.image_id.t = "oid"
                   THEN FindById(db.images, face.image_id.n) ELSE 0
             width == db.images[im].width
             height == db.images[im].height
             low == face.det_score # Null /\ face.det_score < min_score
             loc == face.location
             edge == \/ loc.left < edge_margin
                     \/ loc.top < edge_margin
                     \/ loc.right > width - edge_margin
                     \/ loc.bottom > height - edge_margin
             fs1 == DeleteById(db.faces, face._id)
             ims1 == [ k \in 1..Len(db.images) |->
                        IF db.images[k]._id = face.image_id.n
                        THEN [db.images[k] EXCEPT !.faces =
                                 SelectSeq(@, LAMBDA r : r # Oid(face._id))]
                        ELSE db.images[k] ]
             other_faces == Len(FacesOf(fs1, face.person_id))
             empty == face.person_id # NoRef /\ other_faces = 0
         IN IF im = 0 THEN PruneFrom(snapshot, i + 1, db)
            ELSE IF ~(low \/ edge) THEN PruneFrom(snapshot, i + 1, db)
            ELSE PruneFrom(snapshot, i + 1,
                     [faces |-> fs1,
                      images |-> ims1,
                      persons |-> IF empty
                                  THEN DeleteById(db.persons,
                                           ObjectId(face.person_id).n)
                                  ELSE db.persons,
                      thumbs |-> IF empty /\ face.thumbnail_path # Null
                                 THEN db.thumbs \ {face.thumbnail_path}
                                 ELSE db.thumbs])

\* fixup.prune_faces(db)
prune_faces(db) == PruneFrom(db.faces, 1, db)

\* merge_duplicate_persons: the face a person's encoding is read from, as an
\* index into db.faces, 0 if there is none
SweepFace(fs, person) ==
    LET rep == IF person.representative_face_id # NoRef
               THEN FindById(fs, ObjectId(person.representative_face_id).n) ELSE 0
        mine == FacesOf(fs, Str(person._id))
    IN IF rep # 0 THEN rep ELSE IF mine # << >> THEN mine[1] ELSE 0

\* merge_duplicate_persons: person_encodings in the order of its keys, with
\* person_names
SweepLoad(fs, ps) ==
    LET with == SelectSeq(ps, LAMBDA person : SweepFace(fs, person) # 0)
    IN [ k \in 1..Len(with) |->
           LET f == fs[SweepFace(fs, with[k])]
           IN [pid |-> Str(with[k]._id), name |-> with[k].name,
               encoding |-> f.encoding, emb |-> f.emb, dim |-> f.dim] ]

RECURSIVE SweepMatches(_, _, _, _, _, _)
\* the inner loop over pids[j..]: np.array of a bytes encoding has no len(),
\* the comparison raises TypeError
SweepMatches(pe, i, j, processed_ids, tolerance, matches) ==
    IF j > Len(pe) THEN [raised |-> FALSE, matches |-> matches]
    ELSE IF pe[j].pid \in processed_ids
         THEN SweepMatches(pe, i, j + 1, processed_ids, tolerance, matches)
    ELSE IF pe[i].encoding = "bytes" \/ pe[j].encoding = "bytes"
         THEN [raised |-> TRUE, matches |-> matches]
    ELSE IF pe[i].dim # pe[j].dim
         THEN SweepMatches(pe, i, j + 1, processed_ids, tolerance, matches)
    ELSE SweepMatches(pe, i, j + 1, processed_ids, tolerance,
             IF Distance(pe[i].emb, pe[j].emb, pe[i].dim) < tolerance
             THEN Append(matches, j) ELSE matches)

\* a sweep that always merges the later person into the earlier one
never_swaps(target_name, source_name) == FALSE

\* "if not target_name and source_name": merge the unnamed into the named
swaps(target_name, source_name) == target_name = "" /\ source_name # ""

RECURSIVE SweepMerge(_, _, _, _, _, _, _)
\* the loop over the matches of one person: merges them into the target
SweepMerge(pe, matches, k, target_id, target_name, processed_ids, db) ==
    IF k > Len(matches) THEN [processed_ids |-> processed_ids, db |-> db]
    ELSE LET source_id == pe[matches[k]].pid
             source_name == pe[matches[k]].name
             conflict == target_name # "" /\ source_name # "" /\ target_name # source_name
             swap == swaps(target_name, source_name)
             final_target == IF swap THEN source_id ELSE target_id
             final_source == IF swap THEN target_id ELSE source_id
             moved == MoveFaces(db.faces, final_source, final_target)
             fs1 == [ x \in 1..Len(moved) |->
                       IF moved[x].person_id = final_target
                       THEN [moved[x] EXCEPT !.thumbnail_path = final_target.n]
                       ELSE moved[x] ]
         IN IF source_id \in processed_ids \/ conflict
            THEN SweepMerge(pe, matches, k + 1, target_id, target_name,
                            processed_ids, db)
            ELSE SweepMerge(pe, matches, k + 1, final_target,
                     IF swap THEN source_name ELSE target_name,
                     processed_ids \cup {final_source},
                     [db EXCEPT !.faces = fs1,
                                !.persons = DeleteById(@, ObjectId(final_source).n),
                                !.thumbs = @ \ {final_source.n}])

RECURSIVE SweepFrom(_, _, _, _, _)
\* the outer loop over pids[i..]
SweepFrom(pe, i, processed_ids, tolerance, db) ==
    IF i > Len(pe) THEN [raised |-> FALSE, db |-> db]
    ELSE IF pe[i].pid \in processed_ids
         THEN SweepFrom(pe, i + 1, processed_ids, tolerance, db)
    ELSE LET m == SweepMatches(pe, i, i + 1, processed_ids, tolerance, << >>)
             r == SweepMerge(pe, m.matches, 1, pe[i].pid, pe[i].name,
                             processed_ids, db)
         IN IF m.raised THEN [raised |-> TRUE, db |-> db]
            ELSE SweepFrom(pe, i + 1, r.processed_ids, tolerance, r.db)

\* fixup.merge_duplicate_persons(db): the catalogue it leaves and whether it
\* raised
merge_duplicate_persons(db) ==
    SweepFrom(SweepLoad(db.faces, db.persons), 1, {}, insightface_tolerance, db)

\* fixup.main(): prune_faces unless --skip-prune, then
\* merge_duplicate_persons unless --skip-merge
Fixup(skip_prune, skip_merge) ==
    LET db1 == IF skip_prune THEN Catalogue ELSE prune_faces(Catalogue)
        r == IF skip_merge THEN [raised |-> FALSE, db |-> db1]
             ELSE merge_duplicate_persons(db1)
    IN /\ Offline
       /\ ~(skip_prune /\ skip_merge)
       /\ faces' = r.db.faces
       /\ images' = r.db.images
       /\ persons' = r.db.persons
       /\ thumbs' = r.db.thumbs
       /\ hist' = [hist EXCEPT !.last =
              IF ~r.raised /\ ~skip_prune /\ ~skip_merge THEN "fixup" ELSE "other"]
       /\ UNCHANGED << callers, bucket, codec, matcher, tree, host, log, folders, ctr, sched, task_queue,
                       result_queue, workers, new_faces_list, initial_faces >>

\* one run over MaintTree, on an empty catalogue or on the catalogue of an
\* earlier run
InitMaint ==
    /\ host = [cpu_count |-> 3, upload_enabled |-> FALSE, runs |-> 1]
    /\ \/ tree = MaintTree /\ EmptyCatalogue
       \/ tree = << SeedFile >> \o MaintTree /\ SeededCatalogue

\* ingestion, then the API and the maintenance script on what it left
SpecMaint ==
    /\ InitMaint
    /\ [][ \/ Next
           \/ Upload
           \/ \E s, t \in 1..ctr.persons : merge_persons(Str(s), Str(t))
           \/ \E im \in 1..ctr.images : delete_image(Str(im))
           \/ \E skip_prune, skip_merge \in BOOLEAN : Fixup(skip_prune, skip_merge) ]_vars

----------------------------------------------------------------------------
(* Uploads with faces the client has detected (face-api.js, 128-d) next to  *)
(* uploads the server detects the faces of (InsightFace, 512-d), on a       *)
(* catalogue no ingestion run has written to                                 *)

MaxClientUploads == 2

\* the files of the client: their face_data holds descriptors of 128 numbers
ClientFiles ==
    { File(<<".">>, Name(FALSE, "c", "jpg"), 100, 100,
           << Face(1, Null, 128, 20, 60, 60, 20),
              Face(2, Null, 128, 20, 90, 60, 50) >>),
      File(<<".">>, Name(FALSE, "d", "jpg"), 100, 100,
           << Face(1, Null, 128, 30, 70, 70, 30) >>) }

\* the face document of upload_images_with_faces: the descriptor is stored
\* as the bytes of a float64 array and read back by bytes_to_encoding
ClientFaceDoc(id, image_id, f) ==
    [RouterFaceDoc(id, image_id, f) EXCEPT
        !.dim = Size(bytes_to_encoding(encoding_to_bytes(Vector("float64", f.dim, 0))))]

\* POST /upload-with-faces of one file: the image document, a face document
\* per face of face_data, then cluster_faces over the new faces
upload_images_with_faces(file) ==
    LET id == ctr.images + 1
        n == Len(file.faces)
        new == [ j \in 1..n |-> ClientFaceDoc(ctr.faces + j, id, file.faces[j]) ]
        c == cluster_faces(faces \o new, persons, ctr.persons,
                           { ctr.faces + j : j \in 1..n })
    IN /\ Offline
       /\ hist.client_uploads < MaxClientUploads
       /\ images' = Append(images,
              RouterImageDoc(id, file, [ j \in 1..n |-> Oid(ctr.faces + j) ]))
       /\ faces' = c.faces
       /\ persons' = c.persons
       /\ ctr' = [ctr EXCEPT !.images = id, !.faces = @ + n, !.persons = c.ctr]
       /\ hist' = [hist EXCEPT !.client_uploads = @ + 1, !.last = "other"]
       /\ UNCHANGED << callers, bucket, codec, matcher, tree, host, log, folders,
                       thumbs, sched, task_queue, result_queue, workers,
                       new_faces_list, initial_faces >>

\* an empty catalogue and no import tree
InitClient ==
    /\ tree = << >>
    /\ host = [cpu_count |-> 3, upload_enabled |-> FALSE, runs |-> 0]
    /\ log = << >> /\ images = << >> /\ faces = << >> /\ persons = << >>
    /\ folders = << >> /\ thumbs = {}
    /\ ctr = [images |-> 0, faces |-> 0, persons |-> 0, folders |-> 0]
    /\ sched = [NoRun EXCEPT !.pc = "done"]
    /\ task_queue = << >> /\ result_queue = << >> /\ workers = << >>
    /\ new_faces_list = << >> /\ initial_faces = << >>
    /\ callers = << >> /\ bucket = {} /\ codec = NoCodec /\ matcher = NoMatch
    /\ hist = NoHist

SpecClient ==
    /\ InitClient
    /\ [][ \/ Upload
           \/ \E file \in ClientFiles : upload_images_with_faces(file)
           \/ \E s, t \in 1..ctr.persons : merge_persons(Str(s), Str(t)) ]_vars

----------------------------------------------------------------------------
(* Upload-only mode: run_batch_processor(upload_only=True) after the runs   *)

\* the images process_pending_uploads works on: db.images.find({"is_uploaded":
\* False}), less those without relative_path (the files of the tree exist)
PendingUploads ==
    { images[k]._id : k \in { j \in 1..Len(images) :
          ~images[j].is_uploaded /\ images[j].relative_path # << >> } }

\* the puts of process_pending_uploads: both objects of every pending image
PendingPuts == PendingUploads \X ObjectKinds

\* BatchProcessor.process_pending_uploads(); failed are the puts whose
\* s3.upload_fileobj raises
process_pending_uploads(failed) ==
    /\ sched.pc = "done"
    /\ PendingUploads # {}
    /\ Cardinality(failed) <= MaxFaults - hist.faults
    /\ bucket' = bucket \cup { Obj(pp[2], pp[1]) : pp \in PendingPuts \ failed }
    /\ images' = [ k \in 1..Len(images) |->
           IF images[k]._id \in PendingUploads
           THEN [images[k] EXCEPT !.is_uploaded = TRUE]
           ELSE images[k] ]
    /\ hist' = [hist EXCEPT !.faults = @ + Cardinality(failed)]
    /\ UNCHANGED << callers, codec, matcher, tree, host, log, faces, persons, folders,
                    thumbs, ctr, sched, task_queue, result_queue, workers,
                    new_faces_list, initial_faces >>

\* one run over ResumeTree on an empty catalogue, started with or without
\* --no-upload
InitUpload ==
    /\ tree = ResumeTree
    /\ \E e \in BOOLEAN :
          host = [cpu_count |-> 3, upload_enabled |-> e, runs |-> 1]
    /\ EmptyCatalogue

\* a run, then upload-only mode
SpecUpload ==
    /\ InitUpload
    /\ [][ \/ Next
           \/ \E failed \in SUBSET PendingPuts : process_pending_uploads(failed) ]_vars

----------------------------------------------------------------------------
(* The reader of the progress log on any file: lines the batch processor    *)
(* wrote, lines cut by a crash, and lines of other origin                   *)

MaxLines == 3

\* the keys a record of the log of ResumeTree can have
LogKeys ==
    { LogKeyOf(ResumeTree[f].dir, ResumeTree[f].name) :
        f \in { g \in 1..Len(ResumeTree) :
                  /\ IsImageMime(guess_type(ResumeTree[g].name))
                  /\ ~ResumeTree[g].name.dot } }

\* the lines that end with a newline
FullLines ==
    { LogLine("rec", k, << >>) : k \in LogKeys }
       \cup { LogLine("junk", k, << >>) : k \in LogKeys }
       \cup { LogLine(kind, << >>, << >>) : kind \in {"other", "scalar", "blank"} }

\* processed_log = self.load_processed_log(), the first statement of run()
L_Load ==
    /\ sched.pc = "idle"
    /\ sched' = [sched EXCEPT !.pc = "loaded",
                              !.processed_log = load_processed_log(log)]
    /\ UNCHANGED << callers, bucket, codec, matcher, tree, host, log, images, faces,
                    persons, folders, thumbs, ctr, task_queue, result_queue,
                    workers, new_faces_list, initial_faces, hist >>

\* the files of up to MaxLines lines; the last line of a file may be one
\* cut before its newline
InitLog ==
    /\ tree = ResumeTree
    /\ host = [cpu_count |-> 3, upload_enabled |-> FALSE, runs |-> 0]
    /\ log \in { << >> } \cup
          UNION { { Append(h, l) :
                      h \in [1..(n - 1) -> FullLines],
                      l \in FullLines \cup { LogLine("torn", k, << >>) : k \in LogKeys } } :
                  n \in 1..MaxLines }
    /\ images = << >> /\ faces = << >> /\ persons = << >> /\ folders = << >>
    /\ thumbs = {}
    /\ ctr = [images |-> 0, faces |-> 0, persons |-> 0, folders |-> 0]
    /\ sched = NoRun
    /\ task_queue = << >> /\ result_queue = << >> /\ workers = << >>
    /\ new_faces_list = << >> /\ initial_faces = << >>
    /\ callers = << >> /\ bucket = {} /\ codec = NoCodec /\ matcher = NoMatch /\ hist = NoHist

SpecLog == InitLog /\ [][L_Load]_vars

----------------------------------------------------------------------------
(* The embedding codec on any vector and on any stored buffer              *)

MaxRaw == 3

\* encoding_to_bytes(v)
C_Encode(v) ==
    /\ codec' = [op |-> "encoded", v |-> v, data |-> encoding_to_bytes(v),
                 out |-> NoVector]
    /\ UNCHANGED << matcher, callers, bucket, tree, host, log, images, faces, persons,
                    folders, thumbs, ctr, sched, task_queue, result_queue,
                    workers, new_faces_list, initial_faces, hist >>

\* face["encoding"] read from the database, whatever wrote it
C_Stored(data) ==
    /\ codec' = [op |-> "stored", v |-> NoVector, data |-> data, out |-> NoVector]
    /\ UNCHANGED << matcher, callers, bucket, tree, host, log, images, faces, persons,
                    folders, thumbs, ctr, sched, task_queue, result_queue,
                    workers, new_faces_list, initial_faces, hist >>

\* bytes_to_encoding(data)
C_Decode ==
    /\ codec.op \in { "encoded", "stored" }
    /\ codec' = [codec EXCEPT !.op = "decoded", !.out = bytes_to_encoding(codec.data)]
    /\ UNCHANGED << matcher, callers, bucket, tree, host, log, images, faces, persons,
                    folders, thumbs, ctr, sched, task_queue, result_queue,
                    workers, new_faces_list, initial_faces, hist >>

InitCodec ==
    /\ tree = << >>
    /\ host = [cpu_count |-> 3, upload_enabled |-> FALSE, runs |-> 0]
    /\ EmptyCatalogue

SpecCodec ==
    /\ InitCodec
    /\ [][ \/ \E dtype \in { "float32", "float64" }, n \in { 2, 64, 128, 256, 512 }, raw \in 1..MaxRaw :
                 C_Encode(Vector(dtype, n, raw))
           \/ \E len \in { 0, 12, 16, 512, 1000, 1024, 2048, 4096 }, raw \in 1..MaxRaw : C_Stored(Bytes(len, raw))
           \/ C_Decode ]_vars

----------------------------------------------------------------------------
(* Several batch processors started on the same database: each is inside    *)
(* get_or_create_folder, and MongoDB interleaves their find_one and         *)
(* insert_one calls.  The folders collection carries no unique index        *)
(* (database.py creates indexes on images, faces and persons only).         *)

MaxCallers == 2

\* the frame of get_or_create_folder(relative_path) at the head of its loop
Call(relative_path) ==
    IF relative_path = << >> \/ relative_path = << "." >>
    THEN [relative_path |-> relative_path, i |-> 1, pc |-> "done",
          parent_id |-> NoRef, result |-> NoRef]
    ELSE [relative_path |-> relative_path, i |-> 1, pc |-> "find",
          parent_id |-> NoRef, result |-> NoRef]

\* the frame after the body of the loop for part i left parent_id: the next
\* part, or return str(parent_id)
NextPart(fr, parent_id) ==
    IF fr.i = Len(fr.relative_path)
    THEN [fr EXCEPT !.parent_id = parent_id, !.pc = "done",
                    !.result = Str(parent_id.n)]
    ELSE [fr EXCEPT !.parent_id = parent_id, !.pc = "find", !.i = @ + 1]

\* folder = self.db.folders.find_one({"path": current_path}), and the else
\* branch when there is one
F_Find(c) ==
    LET fr == callers[c]
        at == FolderIdx(folders, SubSeq(fr.relative_path, 1, fr.i), 1)
    IN /\ fr.pc = "find"
       /\ callers' = [callers EXCEPT ![c] =
              IF at = 0 THEN [fr EXCEPT !.pc = "insert"]
              ELSE NextPart(fr, Oid(folders[at]._id))]
       /\ UNCHANGED << tree, host, log, images, faces, persons, folders, thumbs,
                       ctr, sched, task_queue, result_queue, workers,
                       new_faces_list, initial_faces, bucket, codec, matcher, hist >>

\* if not folder: result = self.db.folders.insert_one(...)
F_Insert(c) ==
    LET fr == callers[c]
        id == ctr.folders + 1
    IN /\ fr.pc = "insert"
       /\ folders' = Append(folders,
              [_id |-> id, name |-> fr.relative_path[fr.i],
               parent_id |-> fr.parent_id,
               path |-> SubSeq(fr.relative_path, 1, fr.i)])
       /\ ctr' = [ctr EXCEPT !.folders = id]
       /\ callers' = [callers EXCEPT ![c] = NextPart(fr, Oid(id))]
       /\ UNCHANGED << tree, host, log, images, faces, persons, thumbs, sched,
                       task_queue, result_queue, workers, new_faces_list,
                       initial_faces, bucket, codec, matcher, hist >>

\* up to MaxCallers processes enter get_or_create_folder on an empty
\* folders collection
InitFolders ==
    /\ tree = << >>
    /\ host = [cpu_count |-> 3, upload_enabled |-> FALSE, runs |-> 0]
    /\ log = << >> /\ images = << >> /\ faces = << >> /\ persons = << >>
    /\ folders = << >> /\ thumbs = {}
    /\ ctr = [images |-> 0, faces |-> 0, persons |-> 0, folders |-> 0]
    /\ sched = NoRun
    /\ task_queue = << >> /\ result_queue = << >> /\ workers = << >>
    /\ new_faces_list = << >> /\ initial_faces = << >>
    /\ bucket = {} /\ codec = NoCodec /\ matcher = NoMatch /\ hist = NoHist
    /\ \E n \in 1..MaxCallers :
          callers \in [1..n -> { Call(p) : p \in { << "sub" >>, << "sub", "deep" >>,
                                                    << "top" >> } }]

SpecFolders ==
    /\ InitFolders
    /\ [][ \E c \in 1..Len(callers) :
              \/ F_Find(c)
              \/ F_Insert(c) ]_vars

\* self.get_or_create_folder(rel_path): the call is entered when the one
\* before it has returned
F_Call(relative_path) ==
    /\ \A c \in 1..Len(callers) : callers[c].pc = "done"
    /\ callers' = << Call(relative_path) >>
    /\ UNCHANGED << tree, host, log, images, faces, persons, folders, thumbs,
                    ctr, sched, task_queue, result_queue, workers,
                    new_faces_list, initial_faces, bucket, codec, matcher, hist >>

\* one batch processor on an empty folders collection
InitSeq ==
    /\ tree = << >>
    /\ host = [cpu_count |-> 3, upload_enabled |-> FALSE, runs |-> 0]
    /\ EmptyCatalogue

SpecSeq ==
    /\ InitSeq
    /\ [][ \/ \E relative_path \in
                 { << >>, << "." >>, << "sub" >>, << "sub", "deep" >>, << "top" >>,
                   << "top", "sub" >>, << "top", "sub", "deep" >> } :
                 F_Call(relative_path)
           \/ \E c \in 1..Len(callers) : F_Find(c) \/ F_Insert(c) ]_vars

----------------------------------------------------------------------------
(* The maintenance commands and the merge endpoint on the catalogues a      *)
(* finished ingestion leaves: three images of one face each, written by     *)
(* workers that ran side by side, persons the operator has named through    *)
(* PUT /persons/{id}, and possibly an image uploaded through the API        *)

\* the embeddings of the three faces in the order of their insertion and the
\* person each face was given: duplicates of one person made by workers that
\* matched before the other had created, two faces of one person, persons
\* created in another order than their faces were written
FixShapes ==
    { [emb |-> << 1, 1, 1 >>, own |-> << 1, 2, 3 >>],
      [emb |-> << 1, 1, 4 >>, own |-> << 1, 1, 2 >>],
      [emb |-> << 1, 3, 2 >>, own |-> << 1, 1, 2 >>],
      [emb |-> << 2, 1, 3 >>, own |-> << 2, 1, 3 >>] }

\* the image file of face k of a shape
FixFile(shape, scores, k) ==
    File(<<".">>, Name(FALSE, << "a", "b", "c" >>[k], "jpg"), 100, 100,
         << Face(shape.emb[k], scores[k], 512, 20, 60, 60, 20) >>)

\* the file of an upload request whose face touches the left edge
\* (detect_faces returns every face the detector found)
EdgeUpload == File(<<".">>, Name(FALSE, "u", "jpg"), 100, 100,
                   << Face(5, 80, 512, 20, 45, 60, 5) >>)

\* the catalogue of a finished run over the files of a shape, the names the
\* operator gave, and the documents of an upload request served afterwards
\* (cluster_faces raised on the list encodings, its face has no person)
FixCatalogue(shape, scores, names, uploaded) ==
    LET file(k) == FixFile(shape, scores, k)
        np == Max(shape.own[1], Max(shape.own[2], shape.own[3]))
        mine(p) == { k \in 1..3 : shape.own[k] = p }
        best(p) == CHOOSE s \in { scores[k] : k \in mine(p) } :
                      \A k \in mine(p) : scores[k] <= s
    IN /\ tree = [ k \in 1..3 |-> file(k) ]
       /\ host = [cpu_count |-> 3, upload_enabled |-> FALSE, runs |-> 0]
       /\ log = [ k \in 1..3 |->
              LogLine("rec", << file(k).name >>,
                      << [face_id |-> Str(k), person_id |-> Str(shape.own[k])] >>) ]
       /\ images = [ k \in 1..3 |->
              [_id |-> k, relative_path |-> << file(k).name >>, processed |-> TRUE,
               is_uploaded |-> FALSE, folder_id |-> NoRef,
               width |-> file(k).width, height |-> file(k).height,
               faces |-> << Oid(k) >>] ]
          \o (IF uploaded THEN << RouterImageDoc(4, EdgeUpload, << Oid(4) >>) >>
              ELSE << >>)
       /\ faces = [ k \in 1..3 |->
              [_id |-> k, image_id |-> Oid(k), person_id |-> Str(shape.own[k]),
               encoding |-> "list", emb |-> shape.emb[k], dim |-> 512,
               location |-> file(k).faces[1].location,
               thumbnail_path |-> shape.own[k], det_score |-> scores[k]] ]
          \o (IF uploaded THEN << RouterFaceDoc(4, 4, EdgeUpload.faces[1]) >>
              ELSE << >>)
       /\ persons = [ p \in 1..np |->
              [_id |-> p, name |-> names[p], best_face_score |-> best(p),
               representative_face_id |-> NoRef] ]
       /\ folders = << >>
       /\ thumbs = 1..np
       /\ ctr = [images |-> IF uploaded THEN 4 ELSE 3,
                 faces |-> IF uploaded THEN 4 ELSE 3,
                 persons |-> np, folders |-> 0]
       /\ sched = [NoRun EXCEPT !.pc = "done"]
       /\ task_queue = << >> /\ result_queue = << >> /\ workers = << >>
       /\ new_faces_list = << >> /\ initial_faces = << >>
       /\ callers = << >> /\ bucket = {} /\ codec = NoCodec /\ matcher = NoMatch
       /\ hist = [NoHist EXCEPT !.uploads = IF uploaded THEN 1 ELSE 0]

\* python fixup.py --skip-prune: merge_duplicate_persons alone
X_Sweep ==
    LET r == merge_duplicate_persons(Catalogue)
    IN /\ Offline
       /\ faces' = r.db.faces
       /\ images' = r.db.images
       /\ persons' = r.db.persons
       /\ thumbs' = r.db.thumbs
       /\ hist' = [hist EXCEPT !.last = IF r.raised THEN "raised" ELSE "sweep"]
       /\ UNCHANGED << callers, bucket, codec, matcher, tree, host, log, folders, ctr,
                       sched, task_queue, result_queue, workers, new_faces_list,
                       initial_faces >>

\* python fixup.py --skip-merge: prune_faces alone
X_Prune ==
    LET db == prune_faces(Catalogue)
    IN /\ Offline
       /\ faces' = db.faces
       /\ images' = db.images
       /\ persons' = db.persons
       /\ thumbs' = db.thumbs
       /\ hist' = [hist EXCEPT !.last = "prune"]
       /\ UNCHANGED << callers, bucket, codec, matcher, tree, host, log, folders, ctr,
                       sched, task_queue, result_queue, workers, new_faces_list,
                       initial_faces >>

\* POST /persons/recluster: recalculate_all_clusters(db); cluster_faces
\* works on every face, all of them unassigned, with no person left
recalculate_all_clusters ==
    LET fs0 == [ k \in 1..Len(faces) |-> [faces[k] EXCEPT !.person_id = NoRef] ]
        c == cluster_faces(fs0, << >>, ctr.persons,
                           { faces[k]._id : k \in 1..Len(faces) })
    IN /\ Offline
       /\ faces' = c.faces
       /\ persons' = c.persons
       /\ ctr' = [ctr EXCEPT !.persons = c.ctr]
       /\ hist' = [hist EXCEPT !.last = "recluster"]
       /\ UNCHANGED << callers, bucket, codec, matcher, tree, host, log, images, folders,
                       thumbs, sched, task_queue, result_queue, workers,
                       new_faces_list, initial_faces >>

\* an answer taken as typed
as_typed(answer) == answer

\* str.lower() on the answers
lower(answer) ==
    CASE answer = "Y" -> "y"
      [] answer = "N" -> "n"
      [] OTHER -> answer

\* python cleanup.py [--force], confirm being the line input() returns
cleanup(force, confirm) ==
    LET proceeds == force \/ lower(confirm) = "y"
    IN /\ Offline
       /\ images' = IF proceeds THEN << >> ELSE images
       /\ faces' = IF proceeds THEN << >> ELSE faces
       /\ persons' = IF proceeds THEN << >> ELSE persons
       /\ folders' = IF proceeds THEN << >> ELSE folders
       /\ thumbs' = IF proceeds THEN {} ELSE thumbs
       /\ log' = IF proceeds THEN << >> ELSE log
       /\ hist' = [hist EXCEPT !.force = force,
                               !.confirm = IF force THEN "" ELSE confirm,
                               !.last = IF proceeds THEN "cleanup" ELSE "aborted"]
       /\ UNCHANGED << callers, bucket, codec, matcher, tree, host, ctr, sched,
                       task_queue, result_queue, workers, new_faces_list,
                       initial_faces >>

\* the det_score of the three faces, and the names PUT /persons/{id} has
\* stored, "" for a person without a name
InitFix ==
    \E shape \in FixShapes, uploaded \in BOOLEAN,
       scores \in { << 90, 70, 70 >>, << 70, 90, 90 >> },
       names \in [1..3 -> { "", "A", "B" }] :
       FixCatalogue(shape, scores, names, uploaded)

\* the commands and the endpoints; merge_persons is the one operation of
\* this specification that records "other"
SpecFix ==
    /\ InitFix
    /\ [][ \/ X_Sweep
           \/ X_Prune
           \/ \E s, t \in 1..ctr.persons : merge_persons(Str(s), Str(t))
           \/ recalculate_all_clusters
           \/ \E force \in BOOLEAN, confirm \in { "y", "Y", "n", "N", "yes", "" } : cleanup(force, confirm) ]_vars

----------------------------------------------------------------------------
(* _find_matching_person on any face and any dict of person encodings: the  *)
(* persons of 128-d and of 512-d faces, and the persons merge_persons has   *)
(* made of both                                                              *)

MaxClusters == 2
MaxExemplars == 2

\* the encodings of the faces: an embedding and its length
Exemplars == [emb : 1..3, dim : { 128, 512 }]

\* person_encodings: the persons in the order of the dict, each with its
\* encodings in the order of its faces
Dicts ==
    LET Clusters == UNION { [1..n -> Exemplars] : n \in 1..MaxExemplars }
    IN UNION { { [ k \in 1..n |-> [pid |-> Str(k), encs |-> cs[k]] ] :
                   cs \in [1..n -> Clusters] } : n \in 0..MaxClusters }

\* best_match = _find_matching_person(face_encoding, person_encodings,
\*                                    tolerance)
M_Return ==
    LET r == _find_matching_person(matcher.q, matcher.pe, matcher.tolerance)
    IN /\ matcher.op = "called"
       /\ matcher' = [matcher EXCEPT
              !.op = IF r[1] = ShapeError THEN "raised" ELSE "returned",
              !.result = r]
       /\ UNCHANGED << callers, bucket, codec, tree, host, log, images, faces,
                       persons, folders, thumbs, ctr, sched, task_queue,
                       result_queue, workers, new_faces_list, initial_faces,
                       hist >>

InitMatch ==
    /\ tree = << >>
    /\ host = [cpu_count |-> 3, upload_enabled |-> FALSE, runs |-> 0]
    /\ log = << >> /\ images = << >> /\ faces = << >> /\ persons = << >>
    /\ folders = << >> /\ thumbs = {}
    /\ ctr = [images |-> 0, faces |-> 0, persons |-> 0, folders |-> 0]
    /\ sched = NoRun
    /\ task_queue = << >> /\ result_queue = << >> /\ workers = << >>
    /\ new_faces_list = << >> /\ initial_faces = << >>
    /\ callers = << >> /\ bucket = {} /\ codec = NoCodec /\ hist = NoHist
    /\ \E q \in Exemplars, pe \in Dicts,
          tolerance \in { insightface_tolerance, face_recognition_tolerance } :
          matcher = [op |-> "called", q |-> q, pe |-> pe,
                     tolerance |-> tolerance, result |-> << >>]

SpecMatch == InitMatch /\ [][M_Return]_vars

----------------------------------------------------------------------------
(* Properties of resumable ingestion *)

\* file f is one the walk offers: not a dotfile, MIME type image/*
ImageFile(f) == ~tree[f].name.dot /\ IsImageMime(guess_type(tree[f].name))

\* the records append_to_log has written in full, torn prefixes left out
RecordsWritten(lines) == SelectSeq(lines, LAMBDA l : l.kind \in {"rec", "junk"})

\* the last run of the behaviour ran to the end of the main loop, no fault
\* injected
CompletedClean ==
    /\ hist.ended # << >>
    /\ hist.ended[Len(hist.ended)] = "completed"
    /\ hist.faults = 0

\* C1: in every run, a file whose log key has a well-formed record in the
\* progress log at start-up is never enqueued (nor taken by a worker); a
\* file whose key has none, and that is a non-dotfile of an image/* type,
\* is enqueued exactly once.
C1_LogKeyedSkip ==
    hist.ended # << >> =>
        /\ \A f \in Files :
              /\ log_key(f) \in hist.startKeys => hist.enq[f] = 0
              /\ (log_key(f) \notin hist.startKeys /\ ImageFile(f)) => hist.enq[f] = 1
        /\ \A j \in 1..Len(task_queue) : task_queue[j].log_key \notin hist.startKeys
        /\ hist.begun \cap hist.startKeys = {}

\* a second run in its loop: one file logged and skipped, one file whose
\* record was torn enqueued again
C1_Witness ==
    /\ Len(hist.ended) = 2
    /\ sched.pc = "loop"
    /\ \E j \in 1..Len(log) : log[j].kind = "torn"
    /\ \E f, g \in Files :
          /\ log_key(f) \in hist.startKeys /\ hist.enq[f] = 0
          /\ log_key(g) \notin hist.startKeys /\ hist.enq[g] = 1

\* C2: a progress record is written only in a step in which the scheduler
\* dequeues a successful result, the record is the one of that result's key
\* and the task of that key returned a result tuple in this run; every
\* dequeued success writes exactly one record, a dequeued failure writes
\* nothing, and so does every other step (a worker's death included).
C2_RecordOnlyAfterSuccess ==
    [][ LET before == RecordsWritten(log)
            after == RecordsWritten(log')
            dequeued == /\ sched.pc = "loop" /\ sched'.pc = "loop"
                        /\ result_queue # << >>
                        /\ result_queue' = Tail(result_queue)
        IN /\ after # before =>
                 /\ dequeued
                 /\ Head(result_queue).ok
                 /\ Head(result_queue).log_key \in hist.returned
                 /\ Len(after) = Len(before) + 1
                 /\ SubSeq(after, 1, Len(before)) = before
                 /\ after[Len(after)].key = Head(result_queue).log_key
           /\ (dequeued /\ Head(result_queue).ok) => Len(after) = Len(before) + 1
           /\ (dequeued /\ ~Head(result_queue).ok) => log' = log
      ]_vars

\* both results of the first run dequeued, one a failure: one record
C2_Witness ==
    /\ Len(hist.ended) = 1
    /\ sched.pc = "loop"
    /\ sched.processed_count_session = 2
    /\ hist.faults = 1
    /\ Len(RecordsWritten(log)) = 1

\* C3: after a run that was stopped and a second run that completed, no
\* logged file was reprocessed, every unlogged image file was, and the
\* catalogue holds exactly one image document per image file.
C3_ResumeExactlyOnce ==
    (hist.ended = << "stopped", "completed" >> /\ hist.faults = 0) =>
        /\ hist.begun \cap hist.startKeys = {}
        /\ \A f \in Files :
              (ImageFile(f) /\ log_key(f) \notin hist.startKeys)
                  => log_key(f) \in hist.begun
        /\ \A f \in Files :
              ImageFile(f) =>
                  Cardinality({ k \in 1..Len(images) :
                                  images[k].relative_path = log_key(f) }) = 1

----------------------------------------------------------------------------
(* Properties of online clustering *)

\* C4: every face document has a non-null person_id, the str() of the _id
\* of a document of the persons collection.
C4_FacesHavePerson ==
    \A k \in 1..Len(faces) :
        /\ faces[k].person_id # NoRef
        /\ faces[k].person_id.t = "str"
        /\ \E p \in 1..Len(persons) : persons[p]._id = faces[k].person_id.n

\* a completed run in which two workers created a person each
C4_Witness ==
    /\ hist.ended = << "completed" >>
    /\ Len(persons) = 2
    /\ Len(faces) = 3
    /\ \E k, m \in 1..Len(faces) : faces[k].person_id # faces[m].person_id

C6_BestScoreMonotone ==
    [][ \A p \in 1..Len(persons) :
            persons[p].best_face_score # Null =>
                /\ p <= Len(persons')
                /\ persons'[p]._id = persons[p]._id
                /\ persons'[p].best_face_score >= persons[p].best_face_score
      ]_vars

\* C7: when all tasks of a run have finished, each person's best_face_score
\* is the maximum det_score of the faces assigned to the person.
C7_BestScoreIsMax ==
    CompletedClean =>
        \A p \in 1..Len(persons) :
            LET scores == { faces[k].det_score :
                              k \in { j \in 1..Len(faces) :
                                        faces[j].person_id = Str(persons[p]._id) } }
            IN scores # {} =>
                  /\ persons[p].best_face_score \in scores
                  /\ \A d \in scores : d <= persons[p].best_face_score

\* C8: a step that sets a person's best_face_score sets the person's
\* representative_face_id to the face inserted in that step; and when a
\* task returns, every person whose first face is of the image of that task
\* has that face as its representative.
C8_RepresentativeWithScore ==
    [][ /\ \A p \in 1..Len(persons) :
              persons'[p].best_face_score # persons[p].best_face_score =>
                  /\ Len(faces') = Len(faces) + 1
                  /\ persons'[p].representative_face_id
                         = Str(faces'[Len(faces')]._id)
        /\ \A key \in hist'.returned \ hist.returned :
              \A p \in 1..Len(persons') :
                  LET mine == { k \in 1..Len(faces') :
                                  faces'[k].person_id = Str(persons'[p]._id) }
                      first == CHOOSE k \in mine : \A m \in mine : k <= m
                      im == FindById(images', faces'[first].image_id.n)
                  IN (mine # {} /\ im # 0 /\ images'[im].relative_path = key) =>
                        persons'[p].representative_face_id = Str(faces'[first]._id)
      ]_vars

----------------------------------------------------------------------------
(* Properties of the catalogue under the API and maintenance *)

\* C9: each person whose representative_face_id is set references a face
\* document that exists and whose person_id is that person.
C9_RepresentativeBelongs ==
    \A p \in 1..Len(persons) :
        persons[p].representative_face_id # NoRef =>
            \E k \in 1..Len(faces) :
                /\ Str(faces[k]._id) = persons[p].representative_face_id
                /\ faces[k].person_id = Str(persons[p]._id)

\* C10: when fixup has run prune_faces and then merge_duplicate_persons to
\* the end, every person has at least one face whose person_id is the person.
C10_NoOrphanAfterMaintenance ==
    hist.last = "fixup" =>
        \A p \in 1..Len(persons) :
            \E k \in 1..Len(faces) : faces[k].person_id = Str(persons[p]._id)


\* C11: when concurrent calls of get_or_create_folder have all returned,
\* every prefix of every path they were called with has exactly one folder
\* document, and the callers of the same path hold the same identifier.
C11_OneFolderPerPrefix ==
    (\A c \in 1..Len(callers) : callers[c].pc = "done") =>
       /\ \A c \in 1..Len(callers) : \A i \in 1..Len(callers[c].relative_path) :
             Len(SelectSeq(folders, LAMBDA fd :
                    fd.path = SubSeq(callers[c].relative_path, 1, i))) = 1
       /\ \A c, d \in 1..Len(callers) :
             callers[c].relative_path = callers[d].relative_path
                => callers[c].result = callers[d].result

\* C12: no image whose task returned a failure is left in state processed:
\* while the failure result of a task is in the result queue, the image
\* document the task inserted is not marked processed.
C12_FailedImageNotProcessed ==
    \A r \in 1..Len(result_queue) : \A k \in 1..Len(images) :
        ~result_queue[r].ok /\ images[k].relative_path = result_queue[r].log_key
           => images[k].processed # TRUE

\* the step appends exactly the result r to the result queue
Puts(key, ok) ==
    /\ Len(result_queue') = Len(result_queue) + 1
    /\ SubSeq(result_queue', 1, Len(result_queue)) = result_queue
    /\ result_queue'[Len(result_queue')].log_key = key
    /\ result_queue'[Len(result_queue')].ok = ok

\* worker i ends its task in the step: no process dies, the worker was busy
\* and is alive and between two tasks afterwards, and no other worker moves
EndsTask(i) ==
    /\ Busy(workers[i])
    /\ hist'.deaths = hist.deaths
    /\ Len(workers') = Len(workers)
    /\ workers'[i].alive /\ workers'[i].pc = "idle"
    /\ \A j \in 1..Len(workers) : j # i => workers'[j] = workers[j]

\* a worker takes the task at the head of the task queue in the step
Dequeues ==
    /\ sched' = sched /\ sched.pc = "loop"
    /\ task_queue # << >> /\ task_queue' = Tail(task_queue)

\* C13: a task that a live worker dequeues gets exactly one result for its
\* key: either the worker is busy with it after the dequeue or the failure
\* marker is put at once; a busy worker that ends its task, by return or by
\* exception, puts one result for the task's key and is alive and idle
\* afterwards; and nothing else puts a result.
C13_OneResultPerTask ==
    [][ /\ Dequeues =>
             \/ /\ result_queue' = result_queue
                /\ \E i \in 1..Len(workers) :
                      /\ workers[i].alive /\ workers[i].pc = "idle"
                      /\ Busy(workers'[i]) /\ workers'[i].task = Head(task_queue)
                      /\ \A j \in 1..Len(workers) : j # i => workers'[j] = workers[j]
             \/ /\ Puts(Head(task_queue).log_key, FALSE)
                /\ workers' = workers
                /\ \E i \in 1..Len(workers) : workers[i].alive
        /\ \A i \in 1..Len(workers) :
              EndsTask(i) => \E ok \in BOOLEAN : Puts(workers[i].task.log_key, ok)
        /\ Len(result_queue') > Len(result_queue) =>
              \/ \E i \in 1..Len(workers) : EndsTask(i)
              \/ Dequeues /\ workers' = workers
      ]_vars

\* a task has failed, its failure marker is in the result queue, and a worker
\* of the same pool, none of which has died, is busy with the next task
C13_Witness ==
    /\ \A i \in 1..Len(workers) : workers[i].alive
    /\ \E r \in 1..Len(result_queue) : \E i \in 1..Len(workers) :
          /\ ~result_queue[r].ok
          /\ Busy(workers[i])
          /\ workers[i].task.log_key # result_queue[r].log_key

\* C14: in every state of a scheduler run, from the initial spawn on and on
\* a host of any CPU count, the pool holds at least 1 worker and at most
\* max(1, cpu_count - 1).
C14_PoolWithinBounds ==
    sched.pc = "loop" =>
       /\ Len(workers) >= 1
       /\ Len(workers) <= Max(1, host.cpu_count - 1)

\* C15: a scheduler iteration that found a dead worker, or that changed the
\* size of the pool, leaves at least as many live workers as the pool held
\* before it, less the one worker the scaler may stop when the pool is
\* above MIN_WORKERS.
C15_DeadWorkerReplaced ==
    [][ ( /\ sched.pc = "loop" /\ sched' = sched
          /\ \/ Len(workers') # Len(workers)
             \/ Dead(workers) # << >> /\ Dead(workers') = << >> )
        => Len(Alive(workers')) >=
              IF Len(workers) > MIN_WORKERS THEN Len(workers) - 1 ELSE Len(workers)
      ]_vars

\* C16: when the scheduler leaves its loop, on completion or on interrupt,
\* and terminates its workers, the task queue holds a sentinel (None) for
\* every live worker, put there before any worker is terminated.
C16_SentinelsBeforeTerminate ==
    [][ (sched.pc = "loop" /\ sched'.pc = "done") =>
           Len(SelectSeq(task_queue, LAMBDA t : t = NoTask)) >= Len(Alive(workers))
      ]_vars

\* C17: an image document has is_uploaded = true only if the put of its
\* original and the put of its thumbnail both succeeded, so that both
\* objects are in the bucket; an image inserted by a run with uploads
\* disabled has is_uploaded = false until upload-only mode has handled it.
C17_UploadedOnlyIfBothPut ==
    \A k \in 1..Len(images) :
        images[k].is_uploaded =>
            \A kind \in ObjectKinds : Obj(kind, images[k]._id) \in bucket

\* C18: load_processed_log returns every well-formed record of the file,
\* whatever lines precede or follow it: once the log is loaded, the key of
\* every complete record line of the file is in processed_log.
C18_EveryRecordLoaded ==
    sched.pc = "loaded" => RecordKeys(log) \subseteq sched.processed_log

\* C19: bytes_to_encoding returns a vector for no buffer whose length is
\* not 512, 1024 or 2048: decoding such a buffer is an error.
C19_OtherLengthsAreErrors ==
    codec.op = "decoded" /\ ByteLen(codec.data) \notin { 512, 1024, 2048 }
       => ~IsVector(codec.out)

\* C20: for a vector v of 128 float32, 128 float64 or 512 float32 elements,
\* bytes_to_encoding(encoding_to_bytes(v)) has the dtype, the length and
\* the buffer of v.
C20_RoundTrip ==
    /\ codec.op = "decoded"
    /\ \/ DType(codec.v) = "float32" /\ Size(codec.v) \in { 128, 512 }
       \/ DType(codec.v) = "float64" /\ Size(codec.v) = 128
    => codec.out = codec.v

\* a vector of 128 float64 elements has been encoded and decoded
C20_Witness ==
    /\ codec.op = "decoded"
    /\ DType(codec.v) = "float64" /\ Size(codec.v) = 128
    /\ DType(codec.out) = "float64" /\ Size(codec.out) = 128

----------------------------------------------------------------------------
(* Properties of merging, pruning, re-clustering and cleanup *)

\* person.get("name") of the person a face refers to, "" when there is none
NameOf(ps, ref) ==
    LET at == IF ref = NoRef THEN 0 ELSE FindById(ps, ref.n)
    IN IF at = 0 THEN "" ELSE ps[at].name

\* C21: no step moves a face from a person to another person when both
\* have names and the names differ: neither the merge endpoint nor the
\* sweep merges across two different names.
C21_NoMergeAcrossNames ==
    [][\A k \in 1..Len(faces) :
          LET at == FindById(faces', faces[k]._id)
              a == NameOf(persons, faces[k].person_id)
              b == IF at = 0 THEN "" ELSE NameOf(persons, faces'[at].person_id)
          IN at # 0 /\ faces'[at].person_id # faces[k].person_id
             => ~(a # "" /\ b # "" /\ a # b)]_vars

\* C22: a sweep, whether it ran to its end or raised, deletes a named person
\* only when a person of the same name survives, and changes no name: the
\* names in use are the same before and after, the named one of a named and
\* an unnamed person survives.
C22_SweepKeepsNames ==
    [][hist'.last \in { "sweep", "raised" } =>
          LET NamesIn(ps) == { ps[k].name : k \in 1..Len(ps) } \ { "" }
          IN /\ NamesIn(persons') = NamesIn(persons)
             /\ \A k \in 1..Len(persons') :
                   LET at == FindById(persons, persons'[k]._id)
                   IN at # 0 /\ persons[at].name = persons'[k].name]_vars

\* the sweep has moved face 1 from person 1, who came first and is gone, to
\* a named person who came later
C22_Witness ==
    /\ hist.last = "sweep"
    /\ log[1].data[1].person_id = Str(1)
    /\ FindById(persons, 1) = 0
    /\ FindById(faces, 1) # 0
    /\ LET f == faces[FindById(faces, 1)]
       IN /\ f.person_id # Str(1)
          /\ f.thumbnail_path = f.person_id.n
          /\ NameOf(persons, f.person_id) # ""

\* C23: a person that received faces in a sweep has afterwards the
\* best_face_score of the best of all its faces, the highest
\* metadata.det_score among them.
C23_SweepUpdatesRepresentative ==
    [][hist'.last \in { "sweep", "raised" } =>
          \A k \in 1..Len(persons') :
             LET pid == Str(persons'[k]._id)
                 mine == { faces'[j].det_score : j \in Range(FacesOf(faces', pid)) }
             IN Len(FacesOf(faces', pid)) > Len(FacesOf(faces, pid))
                => /\ persons'[k].best_face_score \in mine
                   /\ \A o \in mine : o <= persons'[k].best_face_score]_vars

\* C24: after a merge, by the merge endpoint or by the sweep, no face refers
\* to a person the merge deleted: the faces of a deleted person all refer to
\* one surviving person, every other face refers to whom it did, and no face
\* document was added or removed.
C24_MergeMovesAllFaces ==
    [][hist'.last \in { "other", "sweep", "raised" } =>
          LET Deleted == { Str(persons[k]._id) :
                             k \in { j \in 1..Len(persons) :
                                       FindById(persons', persons[j]._id) = 0 } }
          IN /\ Len(faces') = Len(faces)
             /\ \A k \in 1..Len(faces) :
                   /\ faces'[k]._id = faces[k]._id
                   /\ faces'[k].person_id \notin Deleted
                   /\ faces[k].person_id \notin Deleted
                      => faces'[k].person_id = faces[k].person_id
                   /\ faces[k].person_id \in Deleted
                      => FindById(persons', faces'[k].person_id.n) # 0
                   /\ \A l \in 1..Len(faces) :
                         faces[l].person_id = faces[k].person_id
                         => faces'[l].person_id = faces'[k].person_id]_vars

\* merge_persons has put two faces the ingestion gave to two persons under
\* one person, whose representative face it has set
C24_Witness ==
    /\ hist.last = "other"
    /\ \E k, l \in 1..Len(faces) :
          /\ faces[k]._id <= 3 /\ faces[l]._id <= 3
          /\ log[faces[k]._id].data[1].person_id # log[faces[l]._id].data[1].person_id
          /\ faces[k].person_id = faces[l].person_id
          /\ faces[k].person_id # NoRef
          /\ LET at == FindById(persons, faces[k].person_id.n)
             IN at # 0 /\ persons[at].representative_face_id # NoRef

\* C25: after prune_faces(min_score=0.65, edge_margin=10) no face of an
\* existing image has a low score or a box (location of the batch ingester,
\* bbox_* of the upload endpoint) within the margin of an edge, no image
\* lists a face that was deleted, and no person is left without a face that
\* had one.
C25_PruneLeavesNoPrunable ==
    [][hist'.last = "prune" =>
          /\ \A k \in 1..Len(faces') :
                LET face == faces'[k]
                    at == FindById(images', face.image_id.n)
                    im == images'[at]
                    box == IF face.encoding = "bytes" THEN face.bbox
                           ELSE face.location
                IN at # 0 =>
                     /\ face.det_score = Null \/ face.det_score >= min_score
                     /\ box.left >= edge_margin
                     /\ box.top >= edge_margin
                     /\ box.right <= im.width - edge_margin
                     /\ box.bottom <= im.height - edge_margin
          /\ \A i \in 1..Len(images') : \A r \in Range(images'[i].faces) :
                FindById(faces, r.n) # 0 => FindById(faces', r.n) # 0
          /\ \A p \in 1..Len(persons') :
                FacesOf(faces, Str(persons'[p]._id)) # << >>
                => FacesOf(faces', Str(persons'[p]._id)) # << >>]_vars

\* C26: a sweep that follows a sweep with nothing in between merges
\* nothing: it leaves the persons and the faces as they are.
C26_SweepIdempotent ==
    [][hist.last = "sweep" /\ hist'.last = "sweep"
          => persons' = persons /\ faces' = faces]_vars

\* C27: after a full re-cluster every person is new, every face with an
\* embedding bytes_to_encoding reads (the buffer the upload endpoint stored,
\* not the list of the batch ingester) refers to a person that exists and
\* no other face refers to one, and every person has a face and a
\* representative face among its faces.
C27_ReclusterAssignsAll ==
    [][hist'.last = "recluster" =>
          /\ \A p \in 1..Len(persons') : FindById(persons, persons'[p]._id) = 0
          /\ \A k \in 1..Len(faces') :
                IF faces'[k].encoding = "bytes"
                THEN /\ faces'[k].person_id # NoRef
                     /\ FindById(persons', faces'[k].person_id.n) # 0
                ELSE faces'[k].person_id = NoRef
          /\ \A p \in 1..Len(persons') :
                LET mine == FacesOf(faces', Str(persons'[p]._id))
                IN /\ mine # << >>
                   /\ \E j \in 1..Len(mine) :
                         persons'[p].representative_face_id = Str(faces'[mine[j]]._id)]_vars

\* C28: a run of cleanup.py empties the collections, the thumbnails and the
\* progress log when --force is given or the answer is y in either case,
\* the next run then loads an empty progress set; after any other answer it
\* changes nothing.
C28_CleanupIffConfirmed ==
    [][hist'.last \in { "cleanup", "aborted" } =>
          IF hist'.force \/ hist'.confirm \in { "y", "Y" }
          THEN /\ images' = << >> /\ faces' = << >> /\ persons' = << >>
               /\ folders' = << >>
               /\ thumbs' = {}
               /\ log' = << >>
               /\ load_processed_log(log') = {}
          ELSE UNCHANGED << images, faces, persons, folders, thumbs, log >>]_vars

\* C28 as stated: without --force only the answer y makes cleanup empty the
\* collections, the thumbnails and the progress log
C28_OnlyLowerCaseY ==
    [][hist'.last \in { "cleanup", "aborted" } =>
          IF hist'.force \/ hist'.confirm = "y"
          THEN /\ images' = << >> /\ faces' = << >> /\ persons' = << >>
               /\ folders' = << >>
               /\ thumbs' = {}
               /\ log' = << >>
          ELSE UNCHANGED << images, faces, persons, folders, thumbs, log >>]_vars

\* a catalogue with images has been wiped on the answer Y
C28_Witness ==
    /\ hist.last = "cleanup"
    /\ ~hist.force /\ hist.confirm = "Y"
    /\ ctr.images > 0
    /\ images = << >> /\ faces = << >> /\ persons = << >> /\ log = << >>

\* C29: when an image document is deleted, no face detected in that image
\* is left, whichever path stored the image and its faces.
C29_DeleteCascadesToFaces ==
    [][\A i \in 1..Len(images) :
          FindById(images', images[i]._id) = 0
          => \A k \in 1..Len(faces') : faces'[k].image_id.n # images[i]._id]_vars

\* C30: every call returns; it returns the first of the persons of the
\* face's dimensionality (those with an exemplar of the length of the face)
\* that are nearest to it, with that distance, the least to such an
\* exemplar, when the distance is below the tolerance, and None exactly
\* when no such person is below the tolerance.
C30_NearestBelowTolerance ==
    matcher.op \notin { "none", "called" } =>
       LET p == matcher.result[1]
           d == matcher.result[2]
           Comparable(c) == { j \in 1..Len(matcher.pe[c].encs) :
                                matcher.pe[c].encs[j].dim = matcher.q.dim }
           OfDim == { c \in 1..Len(matcher.pe) : Comparable(c) # {} }
           Nearest(c) ==
               LET ds == { Distance(matcher.q.emb, matcher.pe[c].encs[j].emb,
                                    matcher.q.dim) : j \in Comparable(c) }
               IN CHOOSE x \in ds : \A o \in ds : x <= o
       IN /\ matcher.op = "returned"
          /\ p # 0 =>
               /\ p \in OfDim
               /\ d = Nearest(p)
               /\ d < matcher.tolerance
               /\ \A c \in OfDim : Nearest(c) >= d
               /\ \A c \in OfDim : c < p => Nearest(c) > d
          /\ p = 0 <=> \A c \in OfDim : Nearest(c) >= matcher.tolerance

----------------------------------------------------------------------------
(* Properties of the fast path, the sweep, the scaler and the progress log *)

\* C31: in a step in which a worker's fast path answers for a face, the
\* face is matched only if its cosine distance 1 - dot to the nearest
\* exemplar the worker sees (the initial snapshot and its cache of the
\* shared list) is below 0.45; a face whose best similarity is at most 0.55
\* is not matched and goes on to get a new person.
C31_FastPathTolerance ==
    [][ \A i \in 1..Len(workers) :
           ( /\ workers[i].alive /\ workers[i].pc = "match"
             /\ Len(workers') = Len(workers)
             /\ workers'[i].alive /\ workers'[i].pc \in { "create", "read" }
             /\ \A j \in 1..Len(workers) : j # i => workers'[j] = workers[j] ) =>
               LET q == CurrentFace(workers[i]).emb
                   visible == initial_faces \o workers'[i].cached_new
                   sims == { Sim(visible[k].enc, q) : k \in 1..Len(visible) }
               IN /\ workers'[i].matched # NoRef =>
                        \E s \in sims : 100 - s < threshold
                  /\ (\A s \in sims : s <= 55) =>
                        workers'[i].matched = NoRef /\ workers'[i].pc = "create"
      ]_vars

\* C32: a face stored in the catalogue is an exemplar of its person for every
\* later match: when a worker's fast path answers for a face that is within
\* the matcher's tolerance of a stored face, and neither a stored face nor
\* an entry of the snapshot or of the shared list within the tolerance is
\* of another person, it answers with the person of that stored face.
C32_MatchedFaceIsExemplar ==
    [][ \A i \in 1..Len(workers) :
           ( /\ workers[i].alive /\ workers[i].pc = "match"
             /\ Len(workers') = Len(workers)
             /\ workers'[i].alive /\ workers'[i].pc \in { "create", "read" }
             /\ \A j \in 1..Len(workers) : j # i => workers'[j] = workers[j] ) =>
               LET q == CurrentFace(workers[i]).emb
                   near == { k \in 1..Len(faces) :
                               faces[k].dim = 512 /\ Sim(faces[k].emb, q) > threshold }
                   listed == initial_faces \o new_faces_list
               IN \A k \in near :
                     ( /\ \A m \in near : faces[m].person_id = faces[k].person_id
                       /\ \A m \in 1..Len(listed) :
                             Sim(listed[m].enc, q) > threshold
                             => listed[m].pid = faces[k].person_id )
                     => workers'[i].matched = faces[k].person_id
      ]_vars

C35_SweepMergesEveryPair ==
    [][ hist'.last = "sweep" =>
           LET pe == SweepLoad(faces, persons)
           IN \A a, b \in 1..Len(pe) :
                 ( /\ a < b
                   /\ pe[a].encoding = "list" /\ pe[b].encoding = "list"
                   /\ pe[a].dim = pe[b].dim
                   /\ Distance(pe[a].emb, pe[b].emb, pe[a].dim) < insightface_tolerance ) =>
                     IF /\ FindById(persons', pe[a].pid.n) # 0
                        /\ FindById(persons', pe[b].pid.n) # 0
                     THEN pe[a].name # "" /\ pe[b].name # "" /\ pe[a].name # pe[b].name
                     ELSE \A k, l \in 1..Len(faces) :
                             ( /\ faces[k].person_id = pe[a].pid
                               /\ faces[l].person_id = pe[b].pid
                               /\ Len(faces') = Len(faces) )
                             => faces'[k].person_id = faces'[l].person_id
      ]_vars

\* C37: under calls of get_or_create_folder made one after the other, every
\* folder document has a path that ends in its name and whose other
\* components are the path of the folder its parent_id identifies (no
\* parent for a path of one component), no two folder documents have the
\* same path, and a call that has returned holds the string of the id of
\* the one folder of its path, None for the root.
C37_FolderTree ==
    /\ \A k \in 1..Len(folders) :
          LET fd == folders[k]
              n == Len(fd.path)
          IN /\ n >= 1
             /\ fd.name = fd.path[n]
             /\ IF n = 1 THEN fd.parent_id = NoRef
                ELSE /\ fd.parent_id.t = "oid"
                     /\ \E m \in 1..Len(folders) :
                           /\ folders[m]._id = fd.parent_id.n
                           /\ folders[m].path = SubSeq(fd.path, 1, n - 1)
             /\ \A m \in 1..Len(folders) : folders[m].path = fd.path => m = k
    /\ \A c \in 1..Len(callers) :
          callers[c].pc = "done" =>
             IF callers[c].relative_path \in { << >>, << "." >> }
             THEN callers[c].result = NoRef
             ELSE \E k \in 1..Len(folders) :
                     /\ folders[k].path = callers[c].relative_path
                     /\ callers[c].result = Str(folders[k]._id)

\* a call for sub/deep has returned the folder an earlier call inserted:
\* the folder inserted last is of another path
C37_Witness ==
    /\ Len(callers) = 1
    /\ callers[1].pc = "done"
    /\ callers[1].relative_path = << "sub", "deep" >>
    /\ callers[1].result # NoRef
    /\ Len(folders) >= 4
    /\ folders[Len(folders)].path = << "top", "sub" >>

\* C39: when the progress log ends in a torn record, the record the
\* scheduler appends for a successful result is among the records the next
\* load_processed_log returns.
C39_AppendedBehindTornIsLoaded ==
    [][ ( /\ sched.pc = "loop"
          /\ result_queue # << >>
          /\ result_queue' = Tail(result_queue)
          /\ Head(result_queue).ok
          /\ Len(log) > 0
          /\ log[Len(log)].kind = "torn" )
        => Head(result_queue).log_key \in load_processed_log(log') ]_vars

\* C40: in the step that appends the progress record of a key, the
\* catalogue holds an image document of that relative_path whose faces list
\* is the list of the face ids of the record, every one of those faces is
\* a face document with the person_id the record gives it, and that person
\* is a person document.
C40_LoggedKeyIsPersisted ==
    [][ ( /\ sched.pc = "loop"
          /\ result_queue # << >>
          /\ result_queue' = Tail(result_queue)
          /\ sched'.processed_count_session = sched.processed_count_session + 1
          /\ log' # log )
        => LET r == Head(result_queue)
               rec == log'[Len(log')]
           IN /\ rec.key = r.log_key
              /\ \E k \in 1..Len(images) :
                    /\ images[k].relative_path = rec.key
                    /\ images[k].faces =
                          [ j \in 1..Len(rec.data) |-> Oid(rec.data[j].face_id.n) ]
              /\ \A j \in 1..Len(rec.data) :
                    /\ rec.data[j].face_id.t = "str"
                    /\ \E m \in 1..Len(faces) :
                          /\ faces[m]._id = rec.data[j].face_id.n
                          /\ faces[m].person_id = rec.data[j].person_id
                    /\ \E p \in 1..Len(persons) :
                          /\ rec.data[j].person_id.t = "str"
                          /\ persons[p]._id = rec.data[j].person_id.n ]_vars

\* the record of b.jpg with its three faces has been appended: the image
\* document lists the three face documents, of two persons
C40_Witness ==
    \E l \in 1..Len(log) :
        /\ log[l].kind = "rec"
        /\ Len(log[l].data) = 3
        /\ log[l].data[1].person_id # log[l].data[2].person_id
        /\ \E k \in 1..Len(images) :
              /\ images[k].relative_path = log[l].key
              /\ Len(images[k].faces) = 3
        /\ \A j \in 1..3 : \E m \in 1..Len(faces) :
              /\ faces[m]._id = log[l].data[j].face_id.n
              /\ faces[m].person_id = log[l].data[j].person_id

\* C36: a pass of the main loop scales only when more than SCALE_COOLDOWN
\* seconds have gone by since the pass that scaled last; it terminates a
\* worker only at a memory utilisation above 85 with more than one worker
\* in the pool, and adds one only at a memory utilisation below 60, a CPU
\* utilisation below 90, a pool below MAX_WORKERS and more unfinished tasks
\* than twice the pool.
C36_ScalingCooledAndGuarded ==
    hist.scaling.kind # "" =>
        /\ hist.scaling.since > 10
        /\ hist.scaling.kind = "down" =>
              /\ hist.scaling.mem_percent > 85
              /\ hist.scaling.pool > 1
              /\ Len(workers) = hist.scaling.pool - 1
        /\ hist.scaling.kind = "up" =>
              /\ hist.scaling.mem_percent < 60
              /\ hist.scaling.cpu_percent < 90
              /\ hist.scaling.pool < sched.MAX_WORKERS
              /\ hist.scaling.pending > 2 * hist.scaling.pool
              /\ Len(workers) = hist.scaling.pool + 1

\* the pool of two was scaled down to one worker, none has died, and after
\* the cooldown the pool is scaled up
C36_Witness ==
    /\ hist.scaling.kind = "up"
    /\ hist.scaling.pool = 1
    /\ hist.faults = 0
    /\ Len(workers) = 2
    /\ sched.elapsed = 0

\* C38: a run that has entered its main loop and is not stopped from
\* outside leaves the loop and shuts down, whatever happens to its workers.
C38_RunLeavesLoop == (sched.pc = "loop") ~> (sched.pc = "done")

====
